---- MODULE Spec2Model ----
(***************************************************************************)
(* Model of BDSAddonInstaller (src/index.js): the module-level registry    *)
(* arrays, the four inventory maps, the installed-pack directory trees,    *)
(* the registry documents and the BDS-Addons directory, driven by          *)
(* installAddon, installAllAddons and the private install / uninstall      *)
(* functions.  A call in progress is a stack of frames; each frame is the  *)
(* code up to the next await.                                              *)
(***************************************************************************)
EXTENDS Integers, Sequences, FiniteSets, TLC

\* Bounds of the model.
MaxCalls == 2      \* top-level API calls made on the installer
MaxIntake == 2     \* files initially present in the BDS-Addons directory

----------------------------------------------------------------------------
\* Plain sequence helpers.

RECURSIVE SeqOfSet(_, _)
\* The elements of set S in the order they appear in sequence order.
SeqOfSet(order, S) ==
    IF order = <<>> THEN <<>>
    ELSE IF Head(order) \in S THEN <<Head(order)>> \o SeqOfSet(Tail(order), S)
         ELSE SeqOfSet(Tail(order), S)

Range(s) == {s[i] : i \in 1..Len(s)}

\* Array.prototype.unshift(x)
unshift(arr, x) == <<x>> \o arr

MinOf(a, b) == IF a < b THEN a ELSE b

\* Array.prototype.splice(start, 0, x) with a 0-based start: an index past the
\* end is clamped to the length.
spliceInsert(arr, start, x) ==
    LET at == MinOf(start, Len(arr))
    IN SubSeq(arr, 1, at) \o <<x>> \o SubSeq(arr, at + 1, Len(arr))

\* Array.prototype.splice(index, 1) with a 0-based index; a negative index
\* counts from the end.
spliceRemove(arr, index) ==
    LET at == IF index < 0 THEN (IF Len(arr) + index < 0 THEN 0 ELSE Len(arr) + index)
              ELSE MinOf(index, Len(arr))
    IN SubSeq(arr, 1, at) \o SubSeq(arr, at + 2, Len(arr))

----------------------------------------------------------------------------
\* Strings are sequences of one-character strings where the code computes on
\* their characters.

DigitChars == <<"0", "1", "2", "3", "4", "5", "6", "7", "8", "9">>

RECURSIVE NumberToString(_)
\* Decimal representation of a non-negative integer.
NumberToString(n) ==
    IF n < 10 THEN <<DigitChars[n + 1]>>
    ELSE NumberToString(n \div 10) \o <<DigitChars[(n % 10) + 1]>>

\* Array.prototype.toString() of a version array: the elements joined by ",".
RECURSIVE ArrayToString(_)
ArrayToString(v) ==
    IF v = <<>> THEN <<>>
    ELSE IF Len(v) = 1 THEN NumberToString(v[1])
    ELSE NumberToString(v[1]) \o <<",">> \o ArrayToString(Tail(v))

\* `${version[0]}.${version[1]}.${version[2]}`
ServerVersionString(version) ==
    NumberToString(version[1]) \o <<".">> \o NumberToString(version[2])
        \o <<".">> \o NumberToString(version[3])

\* The characters matched by \w.
WordChars == {"F", "G", "B", "o", "a", "r", "_"}

\* name.replace(/\W/g, '')
SanitizeName(name) == SelectSeq(name, LAMBDA c : c \in WordChars)

\* String.prototype.toLowerCase() on the module types that occur.
ToLowerCase(s) ==
    CASE s = "Resources" -> "resources"
      [] s = "Data" -> "data"
      [] OTHER -> s

----------------------------------------------------------------------------
\* Pack manifests (the parsed manifest.json of a pack) and the files that can
\* lie in the BDS-Addons directory.  An absent JSON member is <<>>.

Manifest(name, uuid, version, modules, headerModules) ==
    [header |-> [name |-> name, uuid |-> uuid, version |-> version,
                 modules |-> headerModules],
     modules |-> modules]

Module(type, version) == [type |-> type, version |-> version]

M_a100 == Manifest(<<"F", "o", "o">>, "a", <<1, 0, 0>>,
                   <<Module("resources", <<1, 0, 0>>)>>, <<>>)
\* Legacy shape: no header.version, the modules listed under the header.
M_a101 == Manifest(<<"G", "o", "o">>, "a", <<>>,
                   <<>>, <<Module("resources", <<1, 0, 1>>)>>)
\* Another pack whose display name sanitizes to the name of M_a100.
M_b100 == Manifest(<<"F", "o", "o", "!">>, "b", <<1, 0, 0>>,
                   <<Module("resources", <<1, 0, 0>>)>>, <<>>)
M_c100 == Manifest(<<"B", "a", "r">>, "c", <<1, 10, 0>>,
                   <<Module("Data", <<1, 10, 0>>)>>, <<>>)
\* Neither manifest.modules nor manifest.header.modules.
M_odd == Manifest(<<"o", "o">>, "o", <<1, 0, 0>>, <<>>, <<>>)
\* A module type that is neither resources nor data, under the id of M_c100.
M_skin == Manifest(<<"a", "a">>, "c", <<1, 0, 0>>,
                   <<Module("skin_pack", <<1, 0, 0>>)>>, <<>>)

\* Content of an archive: the manifest.json found in it (at most one) and,
\* for an addon, its top-level entries.
Archive(manifest, entries) == [manifest |-> manifest, entries |-> entries]

PackArchive(m) == Archive(<<m>>, <<>>)

Entry(name, content) == [name |-> name, content |-> content]

\* A path below the BDS-Addons directory is its file name, cut into tokens;
\* the last token is the extension.
P_a100 == <<"a100", ".mcpack">>
P_a101 == <<"a101", ".mcpack">>
P_b100 == <<"b100", ".mcpack">>
P_bad == <<"bad", ".mcpack">>
P_notes == <<"notes", ".txt">>
P_pk == <<"pk", ".mcaddon">>
P_pk_r == <<"pk", "_", "r", ".mcpack">>
P_pk_d == <<"pk", "_", "d", ".mcpack">>
P_qk == <<"qk", ".mcaddon">>
P_qk_d == <<"qk", "_", "d", ".mcpack">>
P_qk_o == <<"qk", "_", "o", ".mcpack">>
P_qk_r == <<"qk", "_", "r", ".mcpack">>
P_qk_s == <<"qk", "_", "s", ".mcpack">>
P_tmp == <<"tmp/">>
P_gone == <<"gone", ".mcpack">>

\* The files an operator may have copied into BDS-Addons.
FileContent ==
    (P_a100 :> PackArchive(M_a100)) @@ (P_a101 :> PackArchive(M_a101)) @@
    (P_b100 :> PackArchive(M_b100)) @@
    (P_bad :> Archive(<<>>, <<>>)) @@ (P_notes :> Archive(<<>>, <<>>)) @@
    (P_pk :> Archive(<<>>, <<Entry(<<"r", ".mcpack">>, PackArchive(M_a101)),
                              Entry(<<"d">>, PackArchive(M_c100))>>)) @@
    (P_qk :> Archive(<<>>, <<Entry(<<"d">>, PackArchive(M_c100)),
                              Entry(<<"o", ".mcpack">>, PackArchive(M_odd)),
                              Entry(<<"r", ".mcpack">>, PackArchive(M_a100)),
                              Entry(<<"s", ".mcpack">>, PackArchive(M_skin))>>))

\* Order in which readdir lists the BDS-Addons directory.
FileOrder == <<P_a100, P_a101, P_b100, P_bad, P_notes, P_pk, P_pk_d, P_pk_r,
               P_qk, P_qk_d, P_qk_o, P_qk_r, P_qk_s, P_tmp>>

\* Order in which readdir lists the subdirectories of a pack directory.
NameOrder == <<<<"B", "a", "r">>, <<"F", "o", "o">>, <<"G", "o", "o">>,
               <<"a", "a">>, <<"o", "o">>>>

DirKeys == {"serverResourcesDir", "serverBehaviorsDir",
            "worldResourcesDir", "worldBehaviorsDir"}

JsonPaths == {"serverPacksJsonPath", "worldResourcesJsonPath",
              "worldBehaviorsJsonPath"}

----------------------------------------------------------------------------
\* Manifest fields as installAddon, installPack and mapInstalledPacks read them.

\* let version = manifest.header.version;
\* if (!version) version = manifest.header.modules[0].version;
ManifestVersion(manifest) ==
    IF manifest.header.version # <<>> THEN manifest.header.version
    ELSE manifest.header.modules[1].version

\* The fallback dereferences header.modules[0]: a TypeError when it is absent.
ManifestVersionThrows(manifest) ==
    manifest.header.version = <<>> /\ manifest.header.modules = <<>>

\* Neither shape of the manifest yields a type.
UnknownManifestFormat(manifest) ==
    manifest.modules = <<>> /\ manifest.header.modules = <<>>

ManifestType(manifest) ==
    IF manifest.modules # <<>> THEN ToLowerCase(manifest.modules[1].type)
    ELSE ToLowerCase(manifest.header.modules[1].type)

\* A Map is the sequence of its values in insertion order, keyed by uuid.
MapHas(map, uuid) == \E i \in 1..Len(map) : map[i].uuid = uuid

\* Map.prototype.get: <<value>>, or <<>> for undefined.
MapGet(map, uuid) == SelectSeq(map, LAMBDA r : r.uuid = uuid)

\* Map.prototype.set: an existing key keeps its position.
MapSet(map, rec) ==
    IF MapHas(map, rec.uuid)
    THEN [i \in 1..Len(map) |-> IF map[i].uuid = rec.uuid THEN rec ELSE map[i]]
    ELSE Append(map, rec)

Location(dir, name) == [dir |-> dir, name |-> name]

RECURSIVE ScanSubdirectories(_, _, _, _)
\* The forEach of mapInstalledPacks over the listed subdirectories.
ScanSubdirectories(dir, tree, names, results) ==
    IF names = <<>> THEN results
    ELSE LET found == tree[Head(names)]
             manifest == found[1]
             next == IF found = <<>> THEN results
                     ELSE MapSet(results,
                                 [name |-> manifest.header.name,
                                  uuid |-> manifest.header.uuid,
                                  version |-> ManifestVersion(manifest),
                                  location |-> Location(dir, Head(names))])
         IN ScanSubdirectories(dir, tree, Tail(names), next)

\* A scan that finds no pack.
mapNoPacks(dir, tree) == <<>>

\* mapInstalledPacks(directory) on the directory tree `tree` of `dir`: a
\* function from the names of its subdirectories to the manifest found below
\* each (<<>> when none is found).
mapInstalledPacks(dir, tree) ==
    ScanSubdirectories(dir, tree, SeqOfSet(NameOrder, DOMAIN tree), <<>>)

RECURSIVE findIndexFrom(_, _, _, _)
findIndexFrom(objectArray, key, value, index) ==
    IF index >= Len(objectArray) THEN -1
    ELSE IF objectArray[index + 1][key] = value THEN index
    ELSE findIndexFrom(objectArray, key, value, index + 1)

\* findIndexOf: the 0-based index of the first object whose key has the
\* value, or -1.
findIndexOf(objectArray, key, value) == findIndexFrom(objectArray, key, value, 0)

\* A registry document: text that JSON.parse accepts as the array `value`,
\* text it accepts as something that is no array ({}), text it rejects, the
\* empty file fs.ensureFileSync creates (which it rejects as well), or no
\* file.
JsonText(value) == [text |-> "array", value |-> value]

ObjectText == [text |-> "object", value |-> <<>>]

Unparsable == [text |-> "garbage", value |-> <<>>]

EmptyFile == [text |-> "empty", value |-> <<>>]

Missing == [text |-> "missing", value |-> <<>>]

\* JSON.stringify(array, undefined, 2)
stringify(array) == JsonText(array)

\* Lines 88-94: try { x = JSON.parse(contents) } catch(err) { x = [] } and
\* if (!Array.isArray(x)) x = []
ParseOrEmpty(contents) ==
    LET threw == contents.text \in {"garbage", "empty"}
        isArray == contents.text = "array"
    IN IF threw THEN <<>>
       ELSE IF ~isArray THEN <<>>
       ELSE contents.value

\* The first element of valid_known_packs.json, which carries no uuid.
FileVersionHeader ==
    [file_system |-> "", path |-> <<>>, uuid |-> "", version |-> <<>>]

\* The entries installPack writes for a pack.
WorldPackInfo(uuid, version) == [pack_id |-> uuid, version |-> version]

ServerPackInfo(rawPath, uuid, version) ==
    [file_system |-> "RawPath", path |-> rawPath, uuid |-> uuid,
     version |-> version]

----------------------------------------------------------------------------
\* State.

VARIABLES
    serverPacksJSON,            \* resident valid_known_packs.json
    worldResourcesJSON,         \* resident world_resource_packs.json
    worldBehaviorsJSON,         \* resident world_behavior_packs.json
    installedServerResources,   \* the four inventory maps
    installedServerBehaviors,
    installedWorldResources,
    installedWorldBehaviors,
    packDirs,                   \* the four pack directories on disk
    jsonFiles,                  \* the three registry documents on disk
    addonDir,                   \* the BDS-Addons directory: path -> archive
    serverFiles,                \* what else the server directory holds
    readOnly,                   \* the documents fs.writeFile cannot write
    suspended,                  \* the call stacks of the calls that wait at an
                                \* await while another call runs
    stack,                      \* frames of the call in progress, next first
    hist                        \* record of the calls made (for the properties)

registries == <<serverPacksJSON, worldResourcesJSON, worldBehaviorsJSON>>

inventories == <<installedServerResources, installedServerBehaviors,
                 installedWorldResources, installedWorldBehaviors>>

vars == <<serverPacksJSON, worldResourcesJSON, worldBehaviorsJSON,
          installedServerResources, installedServerBehaviors,
          installedWorldResources, installedWorldBehaviors,
          packDirs, jsonFiles, addonDir, serverFiles, readOnly, suspended,
          stack, hist>>

\* What a property may compare a later state with.
Snapshot ==
    [server |-> serverPacksJSON,
     worldResources |-> worldResourcesJSON,
     worldBehaviors |-> worldBehaviorsJSON,
     installed |-> [serverResourcesDir |-> installedServerResources,
                    serverBehaviorsDir |-> installedServerBehaviors,
                    worldResourcesDir |-> installedWorldResources,
                    worldBehaviorsDir |-> installedWorldBehaviors],
     dirs |-> packDirs,
     files |-> jsonFiles]

Frame(op, label, arg) == [op |-> op, label |-> label, arg |-> arg]

----------------------------------------------------------------------------
\* Directories and registry entries by pack type.

ServerDirOf(type) ==
    IF type = "data" THEN "serverBehaviorsDir" ELSE "serverResourcesDir"

WorldDirOf(type) ==
    IF type = "data" THEN "worldBehaviorsDir" ELSE "worldResourcesDir"

WorldJsonPathOf(type) ==
    IF type = "data" THEN "worldBehaviorsJsonPath" ELSE "worldResourcesJsonPath"

RawPathOf(type, name) ==
    IF type = "data" THEN <<"behavior_packs/">> \o name
    ELSE <<"resource_packs/">> \o name

----------------------------------------------------------------------------
\* Construction.

\* The packs a server may hold before the installer is constructed.
InitPacks == <<M_a100, M_a101, M_c100>>

\* What the server directory holds besides the packs and the documents,
\* "level-name" standing for a level-name line in server.properties.
ServerFiles == {"behavior_packs", "resource_packs", "server.properties",
                "level-name"}

\* The servers the installer is constructed on: the packs installed at
\* server scope and at world scope, the state of the three registry
\* documents, and the other files of the server directory.
Server(onServer, inWorld, documents, files) ==
    [onServer |-> onServer, inWorld |-> inWorld, documents |-> documents,
     files |-> files]

InitServers ==
    {Server({}, {}, "listed", ServerFiles),                  \* no pack yet
     Server({M_a100, M_c100}, {M_a100, M_c100}, "listed", ServerFiles),
                                                             \* installed by this tool
     Server({M_a100}, {}, "fresh", ServerFiles),             \* shipped with the server
     Server({}, {M_a100}, "listed", ServerFiles),            \* copied into the world
     Server({M_a100}, {M_a101}, "listed", ServerFiles),      \* scopes out of step
     Server({M_a100}, {M_a100}, "damaged", ServerFiles),     \* documents unusable
     Server({}, {}, "registered", ServerFiles),              \* directories lost
     \* directories that are no server the installer accepts
     Server({M_a100}, {}, "noServerDocument", ServerFiles),
     Server({}, {}, "listed", ServerFiles \ {"resource_packs"}),
     Server({M_a100}, {}, "fresh", ServerFiles \ {"server.properties", "level-name"}),
     Server({M_a100}, {}, "fresh", ServerFiles \ {"level-name"})}

\* A pack directory holding the packs of set S whose type puts them there.
TreeOf(dir, S) ==
    LET here == {m \in S : dir \in {ServerDirOf(ManifestType(m)),
                                    WorldDirOf(ManifestType(m))}}
    IN [n \in {SanitizeName(m.header.name) : m \in here} |->
           <<CHOOSE m \in here : SanitizeName(m.header.name) = n>>]

ServerEntriesOf(packs) ==
    [i \in 1..Len(packs) |->
        ServerPackInfo(RawPathOf(ManifestType(packs[i]),
                                 SanitizeName(packs[i].header.name)),
                       packs[i].header.uuid,
                       ServerVersionString(ManifestVersion(packs[i])))]

WorldEntriesOf(packs, type) ==
    LET mine == SelectSeq(packs, LAMBDA m : ManifestType(m) = type)
    IN [i \in 1..Len(mine) |->
           WorldPackInfo(mine[i].header.uuid, ManifestVersion(mine[i]))]

\* The disk of a server on which the packs of onServer are installed at
\* server scope and those of inWorld at world scope.
DiskDirs(onServer, inWorld) ==
    [d \in DirKeys |->
        IF d \in {"serverResourcesDir", "serverBehaviorsDir"}
        THEN TreeOf(d, onServer) ELSE TreeOf(d, inWorld)]

\* Its registry documents: they list the packs ("listed"); the world has no
\* documents yet ("fresh"); valid_known_packs.json holds an object, the
\* world resources document does not parse and the world behaviors document
\* is missing ("damaged"); valid_known_packs.json is missing
\* ("noServerDocument"); they list a pack no directory holds ("registered").
DiskFiles(onServer, inWorld, documents) ==
    LET Listing(S, W) ==
            [serverPacksJsonPath |->
                 JsonText(<<FileVersionHeader>>
                          \o ServerEntriesOf(SeqOfSet(InitPacks, S))),
             worldResourcesJsonPath |->
                 JsonText(WorldEntriesOf(SeqOfSet(InitPacks, W), "resources")),
             worldBehaviorsJsonPath |->
                 JsonText(WorldEntriesOf(SeqOfSet(InitPacks, W), "data"))]
        listed == Listing(onServer, inWorld)
    IN CASE documents = "listed" -> listed
         [] documents = "registered" ->
                Listing(onServer \cup {M_a100}, inWorld \cup {M_a100})
         [] documents = "fresh" ->
                [listed EXCEPT !["worldResourcesJsonPath"] = Missing,
                               !["worldBehaviorsJsonPath"] = Missing]
         [] documents = "damaged" ->
                [serverPacksJsonPath |-> ObjectText,
                 worldResourcesJsonPath |-> Unparsable,
                 worldBehaviorsJsonPath |-> Missing]
         [] documents = "noServerDocument" ->
                [listed EXCEPT !["serverPacksJsonPath"] = Missing]

\* The argument of the constructor: none, a path that does not exist, the
\* path of the server directory.
ServerPath == <<"server/">>

ProvidedPaths == {<<>>, <<"nowhere/">>, ServerPath}

\* Line 42
requiredFiles == <<"behavior_packs", "resource_packs", "valid_known_packs.json">>

\* fs.existsSync(path.join(providedServerPath, file))
existsSync(file, present, files) ==
    IF file = "valid_known_packs.json"
    THEN files["serverPacksJsonPath"] # Missing
    ELSE file \in present

\* Lines 58-69 and readWorldName (lines 446-454): the error the constructor
\* throws before it touches a document, or "" when it throws none.
ConstructionError(providedServerPath, present, files) ==
    IF providedServerPath = <<>> THEN "You must provide a server path"
    ELSE IF providedServerPath # ServerPath
    THEN "The provided server path does not exist"
    ELSE IF \E i \in 1..Len(requiredFiles) :
                ~existsSync(requiredFiles[i], present, files)
    THEN "Unable to find server files in provided path"
    ELSE IF "server.properties" \notin present
    THEN "Unable to locate server properties"
    ELSE IF "level-name" \notin present
    THEN "Unable to retrieve level-name from server properties"
    ELSE ""

\* A constructor that creates no document.
ensureFileNever(files, path) == files

\* fs.ensureFileSync(path)
ensureFileSync(files, path) ==
    IF files[path] = Missing THEN [files EXCEPT ![path] = EmptyFile] ELSE files

\* Lines 78-81
EnsureFiles(files) ==
    ensureFileSync(ensureFileSync(ensureFileSync(files, "serverPacksJsonPath"),
                                  "worldResourcesJsonPath"),
                   "worldBehaviorsJsonPath")

\* A failed construction that has created the documents before it threw.
UnconstructedEnsured(files) ==
    [error |-> "",
     files |-> EnsureFiles(files),
     server |-> <<>>,
     worldResources |-> <<>>,
     worldBehaviors |-> <<>>,
     installed |-> [d \in DirKeys |-> <<>>]]

\* The module variables of a process in which no installer was constructed:
\* the registries are null (here <<>>, no code reads them), the maps empty.
Unconstructed(files) ==
    [error |-> "",
     files |-> files,
     server |-> <<>>,
     worldResources |-> <<>>,
     worldBehaviors |-> <<>>,
     installed |-> [d \in DirKeys |-> <<>>]]

\* The constructor (lines 51-101) on a disk (present, dirs, files): the
\* error it throws, the documents it leaves, and the module variables: the
\* registries are parsed from the documents, the maps are scanned from the
\* directories.
constructor(providedServerPath, present, dirs, files) ==
    LET error == ConstructionError(providedServerPath, present, files)
        ensured == EnsureFiles(files)
    IN IF error # ""
       THEN [Unconstructed(files) EXCEPT !.error = error]
       ELSE [error |-> "",
             files |-> ensured,
             server |-> ParseOrEmpty(ensured["serverPacksJsonPath"]),
             worldResources |-> ParseOrEmpty(ensured["worldResourcesJsonPath"]),
             worldBehaviors |-> ParseOrEmpty(ensured["worldBehaviorsJsonPath"]),
             installed |-> [d \in DirKeys |-> mapInstalledPacks(d, dirs[d])]]

ConstructorCall(providedServerPath) ==
    [op |-> "constructor", arg |-> providedServerPath]

\* hist when a constructor has run in a new process on the disk (dirs,
\* files).
HistOfConstruction(providedServerPath, calls, built, dirs, files) ==
    [calls |-> calls,
     outcome |-> IF built.error = "" THEN "resolved" ELSE "rejected",
     last |-> "constructor",
     log |-> <<[ev |-> "constructor", arg |-> providedServerPath]>>
             \o (IF built.error = "" THEN <<>>
                 ELSE <<[ev |-> "thrown", arg |-> built.error]>>),
     pre |-> [server |-> <<>>, worldResources |-> <<>>, worldBehaviors |-> <<>>,
              installed |-> [d \in DirKeys |-> <<>>],
              dirs |-> dirs, files |-> files],
     ia |-> <<>>, un |-> <<>>, ip |-> <<>>]

\* The state after new BDSAddonInstaller(providedServerPath) on a server.
\* Constructions that throw are started on an empty BDS-Addons directory.
\* The documents of `unwritable` cannot be written by the process.
InitWith(servers, unwritable) ==
    \E server \in servers, present \in SUBSET (DOMAIN FileContent),
       providedServerPath \in ProvidedPaths :
        LET dirs == DiskDirs(server.onServer, server.inWorld)
            files == DiskFiles(server.onServer, server.inWorld, server.documents)
            built == constructor(providedServerPath, server.files, dirs, files)
        IN /\ Cardinality(present) <= MaxIntake
           /\ built.error # "" => present = {}
           /\ packDirs = dirs
           /\ jsonFiles = built.files
           /\ serverFiles = server.files
           /\ readOnly = unwritable
           /\ suspended = <<>>
           /\ addonDir = [f \in present |-> FileContent[f]]
           /\ serverPacksJSON = built.server
           /\ worldResourcesJSON = built.worldResources
           /\ worldBehaviorsJSON = built.worldBehaviors
           /\ installedServerResources = built.installed["serverResourcesDir"]
           /\ installedServerBehaviors = built.installed["serverBehaviorsDir"]
           /\ installedWorldResources = built.installed["worldResourcesDir"]
           /\ installedWorldBehaviors = built.installed["worldBehaviorsDir"]
           /\ stack = <<>>
           /\ hist = HistOfConstruction(providedServerPath, <<>>, built, dirs,
                                        files)

\* Every document can be written.
Init == InitWith(InitServers, {})

\* One of the documents that exist cannot be written (it is read-only, or
\* the disk is full): fs.writeFile rejects.
FaultInit ==
    \E path \in JsonPaths :
        /\ InitWith(InitServers, {path})
        /\ hist.pre.files[path].text # "missing"

----------------------------------------------------------------------------
\* Calls, returns and exceptions.

Last(s) == s[Len(s)]

Event(ev, arg) == [ev |-> ev, arg |-> arg]

Running(op) == stack # <<>> /\ Head(stack).op = op

\* An installAllAddons without the try of lines 181-188: an exception of an
\* entry ends the loop.
UnwindAbort(frames) == <<>>

\* An exception that ends the frame that threw and no other.
UnwindResume(frames) == frames

RECURSIVE Unwind(_)
\* The frames that remain when an exception leaves the top frame: those
\* after the catch of the innermost try (installAllAddons), or none.
Unwind(frames) ==
    IF frames = <<>> THEN <<>>
    ELSE IF Head(frames).op = "endTry" THEN Tail(frames)
    ELSE Unwind(Tail(frames))

Caught(frames) == \E i \in 1..Len(frames) : frames[i].op = "endTry"

\* hist after the top frame ran and left `frames` to run.
HistAfter(frames, events) ==
    [hist EXCEPT !.log = @ \o events,
                 !.last = Head(stack).label,
                 !.outcome = IF frames = <<>> THEN "resolved" ELSE @]

\* The top frame ends normally, leaving `frames`.
Return(frames, events) ==
    /\ stack' = frames
    /\ hist' = HistAfter(frames, events)

\* The top frame throws.
Throw(events, error) ==
    LET caught == Caught(Tail(stack))
        frames == Unwind(Tail(stack))
    IN /\ stack' = frames
       /\ hist' = [hist EXCEPT
               !.log = @ \o events
                         \o <<Event(IF caught THEN "caught" ELSE "thrown", error)>>,
               !.last = "throw",
               !.outcome = IF ~caught THEN "rejected"
                           ELSE IF frames = <<>> THEN "resolved" ELSE @]

\* The last constructor threw: the process holds no installer.
NoSession == hist.last = "constructor" /\ hist.outcome = "rejected"

\* A call of the public API on an idle installer.
BeginCall(call, frames) ==
    /\ stack = <<>>
    /\ suspended = <<>>
    /\ ~NoSession
    /\ Len(hist.calls) < MaxCalls
    /\ stack' = frames
    /\ hist' = [hist EXCEPT !.calls = Append(@, call),
                            !.outcome = "pending",
                            !.last = "call",
                            !.log = <<>>,
                            !.pre = Snapshot,
                            !.ia = <<>>,
                            !.un = <<>>,
                            !.ip = <<>>]

----------------------------------------------------------------------------
\* The public API.

InstallAddonFrame(packPath, src) ==
    Frame("installAddon", "installAddon", [packPath |-> packPath, src |-> src])

\* installer.installAddon(packPath)
CallInstallAddon ==
    \E packPath \in DOMAIN addonDir \cup {P_gone} :
        /\ BeginCall([op |-> "installAddon", arg |-> packPath],
                     <<InstallAddonFrame(packPath, "api")>>)
        /\ UNCHANGED <<registries, inventories, packDirs, jsonFiles, addonDir, serverFiles, readOnly, suspended>>

\* An installAllAddons whose sweep is not awaited: the listing and the
\* installs run first, the sweep when they have ended.
CallInstallAllAddonsUnawaited ==
    \E removeOldPacks \in BOOLEAN :
        /\ BeginCall([op |-> "installAllAddons", arg |-> removeOldPacks],
                     <<Frame("readdir", "readdir", <<>>)>>
                     \o (IF removeOldPacks
                         THEN <<Frame("uninstallAllWorldPacks", "uninstallAllWorldPacks", <<>>)>>
                         ELSE <<>>))
        /\ UNCHANGED <<registries, inventories, packDirs, jsonFiles, addonDir, serverFiles, readOnly, suspended>>

\* installer.installAllAddons(removeOldPacks)
CallInstallAllAddons ==
    \E removeOldPacks \in BOOLEAN :
        /\ BeginCall([op |-> "installAllAddons", arg |-> removeOldPacks],
                     (IF removeOldPacks
                      THEN <<Frame("uninstallAllWorldPacks", "uninstallAllWorldPacks", <<>>)>>
                      ELSE <<>>)
                     \o <<Frame("readdir", "readdir", <<>>)>>)
        /\ UNCHANGED <<registries, inventories, packDirs, jsonFiles, addonDir, serverFiles, readOnly, suspended>>

\* new BDSAddonInstaller(providedServerPath) in a new process on the same
\* server.
NewSession ==
    \E providedServerPath \in ProvidedPaths :
        LET built == constructor(providedServerPath, serverFiles, packDirs,
                                 jsonFiles)
        IN /\ stack = <<>>
           /\ suspended = <<>>
           /\ Len(hist.calls) < MaxCalls
           /\ jsonFiles' = built.files
           /\ serverPacksJSON' = built.server
           /\ worldResourcesJSON' = built.worldResources
           /\ worldBehaviorsJSON' = built.worldBehaviors
           /\ installedServerResources' = built.installed["serverResourcesDir"]
           /\ installedServerBehaviors' = built.installed["serverBehaviorsDir"]
           /\ installedWorldResources' = built.installed["worldResourcesDir"]
           /\ installedWorldBehaviors' = built.installed["worldBehaviorsDir"]
           /\ hist' = HistOfConstruction(
                          providedServerPath,
                          Append(hist.calls, ConstructorCall(providedServerPath)),
                          built, packDirs, jsonFiles)
           /\ UNCHANGED <<packDirs, addonDir, serverFiles, readOnly, suspended, stack>>

----------------------------------------------------------------------------
\* installAddon (lines 107-166).

\* A lookup that takes every type but resources for data.
InstalledServerPackOrData(type, uuid) ==
    IF type = "resources" THEN MapGet(installedServerResources, uuid)
    ELSE MapGet(installedServerBehaviors, uuid)

\* Lines 137-144: the records of the maps of the pack's type.
InstalledWorldPack(type, uuid) ==
    IF type = "resources" THEN MapGet(installedWorldResources, uuid)
    ELSE IF type = "data" THEN MapGet(installedWorldBehaviors, uuid)
    ELSE <<>>

InstalledServerPack(type, uuid) ==
    IF type = "resources" THEN MapGet(installedServerResources, uuid)
    ELSE IF type = "data" THEN MapGet(installedServerBehaviors, uuid)
    ELSE <<>>

\* A decision that compares the world record only.
upToDateWorld(installedWorldPack, installedServerPack, version) ==
    installedWorldPack # <<>> =>
        ArrayToString(installedWorldPack[1].version) = ArrayToString(version)

\* Lines 148-150: installedPack.version.toString() != version.toString()
upToDate(installedWorldPack, installedServerPack, version) ==
    /\ installedWorldPack # <<>> =>
           ArrayToString(installedWorldPack[1].version) = ArrayToString(version)
    /\ installedServerPack # <<>> =>
           ArrayToString(installedServerPack[1].version) = ArrayToString(version)

UninstallFrame(op, uuid, location) ==
    Frame(op, op, [uuid |-> uuid, location |-> location])

\* An update that uninstalls only the records whose version differs.
UninstallDiffering(installedWorldPack, installedServerPack, type, uuid, version) ==
    (IF installedServerPack # <<>>
        /\ ArrayToString(installedServerPack[1].version) # ArrayToString(version)
     THEN <<UninstallFrame("uninstallServerPack", uuid,
                           installedServerPack[1].location)>>
     ELSE <<>>)
    \o (IF installedWorldPack # <<>>
           /\ ArrayToString(installedWorldPack[1].version) # ArrayToString(version)
        THEN <<UninstallFrame(IF type = "data" THEN "uninstallWorldBehavior"
                              ELSE "uninstallWorldResource",
                              uuid, installedWorldPack[1].location)>>
        ELSE <<>>)

\* Lines 157-159: the uninstall calls of a pack that is not up to date.
UninstallOld(installedWorldPack, installedServerPack, type, uuid, version) ==
    (IF installedServerPack # <<>>
     THEN <<UninstallFrame("uninstallServerPack", uuid,
                           installedServerPack[1].location)>>
     ELSE <<>>)
    \o (IF installedWorldPack # <<>> /\ type = "resources"
        THEN <<UninstallFrame("uninstallWorldResource", uuid,
                              installedWorldPack[1].location)>>
        ELSE <<>>)
    \o (IF installedWorldPack # <<>> /\ type = "data"
        THEN <<UninstallFrame("uninstallWorldBehavior", uuid,
                              installedWorldPack[1].location)>>
        ELSE <<>>)

installAddon ==
    /\ Running("installAddon")
    /\ LET packPath == Head(stack).arg.packPath
           called == <<Event("installAddon", Head(stack).arg)>>
       IN IF packPath \notin DOMAIN addonDir
          THEN Throw(called, "path does not exist")
          ELSE IF Last(packPath) \notin {".mcpack", ".mcaddon"}
          THEN Throw(called, "not an addon or pack")
          ELSE IF Last(packPath) = ".mcaddon"
          THEN Return(<<Frame("extractAddonPacks", "extractAddonPacks", packPath)>>
                      \o Tail(stack), called)
          ELSE IF addonDir[packPath].manifest = <<>>
          THEN Throw(called, "manifest does not exist")
          ELSE LET manifest == addonDir[packPath].manifest[1]
                   uuid == manifest.header.uuid
                   version == ManifestVersion(manifest)
                   type == ManifestType(manifest)
                   installedWorldPack == InstalledWorldPack(type, uuid)
                   installedServerPack == InstalledServerPack(type, uuid)
                   install == Frame("installPack", "installPack",
                                    [packPath |-> packPath, manifest |-> manifest])
               IN IF ManifestVersionThrows(manifest)
                  THEN Throw(called, "TypeError")
                  ELSE IF UnknownManifestFormat(manifest)
                  THEN Throw(called, "unknown manifest format")
                  ELSE /\ stack' =
                              IF (installedWorldPack # <<>> \/ installedServerPack # <<>>)
                                 /\ upToDate(installedWorldPack, installedServerPack,
                                             version)
                              THEN Tail(stack)
                              ELSE UninstallOld(installedWorldPack, installedServerPack,
                                                type, uuid, version)
                                   \o <<install>> \o Tail(stack)
                       /\ hist' = [HistAfter(stack', called) EXCEPT
                              !.ia = <<[packPath |-> packPath, uuid |-> uuid,
                                        version |-> version, type |-> type,
                                        installedWorldPack |-> installedWorldPack,
                                        installedServerPack |-> installedServerPack,
                                        pre |-> Snapshot]>>]
    /\ UNCHANGED <<registries, inventories, packDirs, jsonFiles, addonDir, serverFiles, readOnly, suspended>>

----------------------------------------------------------------------------
\* The awaited file-system operations, as the disk they leave.

\* promiseExtract(file, destination) (lines 531-539) of a pack into a pack
\* directory: the files of the archive are written below destination,
\* overwriting those present, so the manifest found there is the archive's.
promiseExtract(dirs, archive, destination) ==
    [dirs EXCEPT ![destination.dir] = (destination.name :> archive.manifest) @@ @]

\* A write that is lost.
writeNothing(files, path, text) == files

\* fs.writeFile(path, text)
writeFile(files, path, text) == [files EXCEPT ![path] = text]

\* if (await fs.exists(location)) await fs.remove(location)
remove(dirs, location) ==
    [dirs EXCEPT ![location.dir] =
        [n \in DOMAIN @ \ {location.name} |-> @[n]]]

----------------------------------------------------------------------------
\* installPack (lines 210-257), one block per await.

\* Lines 246-247: WorldPacksJSON.unshift(worldPackInfo)
InstallToWorldJSON(WorldPacksJSON, uuid, version) ==
    unshift(WorldPacksJSON, WorldPackInfo(uuid, version))

\* A server entry inserted like the world entry, at the front.
InstallToServerFront(packsJSON, rawPath, uuid, version) ==
    unshift(packsJSON,
            ServerPackInfo(rawPath, uuid, ServerVersionString(version)))

\* Lines 252-254: serverPacksJSON.splice(1, 0, serverPackInfo)
InstallToServerJSON(packsJSON, rawPath, uuid, version) ==
    spliceInsert(packsJSON, 1,
                 ServerPackInfo(rawPath, uuid, ServerVersionString(version)))

\* Lines 210-248: the manifest is read again, the world entry is inserted
\* and the extraction into the world directory is started.
installPack ==
    /\ Running("installPack")
    /\ LET packPath == Head(stack).arg.packPath
           manifest == Head(stack).arg.manifest
           name == SanitizeName(manifest.header.name)
           uuid == manifest.header.uuid
           version == ManifestVersion(manifest)
           type == ManifestType(manifest)
           ctx == [packPath |-> packPath, name |-> name, uuid |-> uuid,
                   version |-> version, type |-> type, text |-> <<>>]
           called == <<Event("installPack", uuid)>>
       IN IF ManifestVersionThrows(manifest)
          THEN /\ Throw(called, "TypeError")
               /\ UNCHANGED <<worldResourcesJSON, worldBehaviorsJSON>>
          ELSE IF UnknownManifestFormat(manifest)
          THEN /\ Throw(called, "unknown manifest format")
               /\ UNCHANGED <<worldResourcesJSON, worldBehaviorsJSON>>
          ELSE IF type \notin {"data", "resources"}
          THEN /\ Throw(called, "unknown pack type")
               /\ UNCHANGED <<worldResourcesJSON, worldBehaviorsJSON>>
          ELSE /\ IF type = "data"
                  THEN /\ worldBehaviorsJSON' =
                              InstallToWorldJSON(worldBehaviorsJSON, uuid, version)
                       /\ UNCHANGED worldResourcesJSON
                  ELSE /\ worldResourcesJSON' =
                              InstallToWorldJSON(worldResourcesJSON, uuid, version)
                       /\ UNCHANGED worldBehaviorsJSON
               /\ stack' = <<Frame("installPack_249", "installPack:249", ctx)>>
                           \o Tail(stack)
               /\ hist' = [HistAfter(stack', called) EXCEPT
                               !.ip = <<[ctx |-> ctx, pre |-> Snapshot]>>]
    /\ UNCHANGED <<serverPacksJSON, inventories, packDirs, jsonFiles, addonDir, serverFiles, readOnly, suspended>>

\* Lines 248-249: the extraction into the world directory has ended, the
\* write of the world document is started.
installPack_249 ==
    /\ Running("installPack_249")
    /\ LET ctx == Head(stack).arg
           WorldPacksJSON == IF ctx.type = "data" THEN worldBehaviorsJSON
                             ELSE worldResourcesJSON
       IN IF ctx.packPath \notin DOMAIN addonDir
          THEN /\ Throw(<<>>, "invalid filename")
               /\ UNCHANGED packDirs
          ELSE /\ packDirs' = promiseExtract(packDirs, addonDir[ctx.packPath],
                                             Location(WorldDirOf(ctx.type), ctx.name))
               /\ Return(<<Frame("installPack_252", "installPack:252",
                                 [ctx EXCEPT !.text = stringify(WorldPacksJSON)])>>
                         \o Tail(stack), <<>>)
    /\ UNCHANGED <<registries, inventories, jsonFiles, addonDir, serverFiles, readOnly, suspended>>

\* Lines 249-255: the world document is written; the server entry is
\* inserted and the extraction into the server directory is started.
installPack_252 ==
    /\ Running("installPack_252")
    /\ LET ctx == Head(stack).arg
       IN IF WorldJsonPathOf(ctx.type) \in readOnly
          THEN /\ Throw(<<Event("writeFile", WorldJsonPathOf(ctx.type))>>, "EACCES")
               /\ UNCHANGED <<jsonFiles, serverPacksJSON>>
          ELSE /\ jsonFiles' = writeFile(jsonFiles, WorldJsonPathOf(ctx.type),
                                         ctx.text)
               /\ serverPacksJSON' =
                      InstallToServerJSON(serverPacksJSON,
                                          RawPathOf(ctx.type, ctx.name),
                                          ctx.uuid, ctx.version)
               /\ Return(<<Frame("installPack_256", "installPack:256", ctx)>>
                         \o Tail(stack), <<>>)
    /\ UNCHANGED <<worldResourcesJSON, worldBehaviorsJSON, inventories, packDirs,
                   addonDir, serverFiles, readOnly, suspended>>

\* Lines 255-256: the extraction into the server directory has ended, the
\* write of the server document is started.
installPack_256 ==
    /\ Running("installPack_256")
    /\ LET ctx == Head(stack).arg
       IN IF ctx.packPath \notin DOMAIN addonDir
          THEN /\ Throw(<<>>, "invalid filename")
               /\ UNCHANGED packDirs
          ELSE /\ packDirs' = promiseExtract(packDirs, addonDir[ctx.packPath],
                                             Location(ServerDirOf(ctx.type), ctx.name))
               /\ Return(<<Frame("installPack_257", "installPack.return",
                                 [ctx EXCEPT !.text = stringify(serverPacksJSON)])>>
                         \o Tail(stack), <<>>)
    /\ UNCHANGED <<registries, inventories, jsonFiles, addonDir, serverFiles, readOnly, suspended>>

\* Lines 256-257: the server document is written, and installPack returns.
installPack_257 ==
    /\ Running("installPack_257")
    /\ IF "serverPacksJsonPath" \in readOnly
       THEN /\ Throw(<<Event("writeFile", "serverPacksJsonPath")>>, "EACCES")
            /\ UNCHANGED jsonFiles
       ELSE /\ jsonFiles' = writeFile(jsonFiles, "serverPacksJsonPath",
                                      Head(stack).arg.text)
            /\ Return(Tail(stack), <<Event("installed", Head(stack).arg.uuid)>>)
    /\ UNCHANGED <<registries, inventories, packDirs, addonDir, serverFiles, readOnly, suspended>>

----------------------------------------------------------------------------
\* The three uninstall functions (lines 299-363).

\* An uninstall that splices whatever findIndexOf returned.
RemoveAlways(array, packIndex) == spliceRemove(array, packIndex)

\* if (packIndex != -1) array.splice(packIndex, 1)
RemoveFound(array, packIndex) ==
    IF packIndex # -1 THEN spliceRemove(array, packIndex) ELSE array

\* The frames an uninstall function leaves after its first block: the end
\* of the write of the document when the pack was found, and the removal of
\* the location.
UninstallRest(packIndex, path, array, location) ==
    (IF packIndex # -1
     THEN <<Frame("uninstall_written", "uninstall:written",
                  [path |-> path, text |-> stringify(array)])>>
     ELSE <<>>)
    \o <<Frame("uninstall_remove", "uninstall.return", location)>>

UninstallHist(frames, scope, uuid, location, packIndex) ==
    [HistAfter(frames, <<Event(scope, uuid)>>) EXCEPT
        !.un = <<[scope |-> scope, uuid |-> uuid, location |-> location,
                  packIndex |-> packIndex,
                  existed |-> location.name \in DOMAIN packDirs[location.dir],
                  pre |-> Snapshot]>>]

uninstallWorldResource ==
    /\ Running("uninstallWorldResource")
    /\ LET uuid == Head(stack).arg.uuid
           location == Head(stack).arg.location
           packIndex == findIndexOf(worldResourcesJSON, "pack_id", uuid)
       IN /\ worldResourcesJSON' = RemoveFound(worldResourcesJSON, packIndex)
          /\ stack' = UninstallRest(packIndex, "worldResourcesJsonPath",
                                    worldResourcesJSON', location) \o Tail(stack)
          /\ hist' = UninstallHist(stack', "uninstallWorldResource", uuid,
                                   location, packIndex)
    /\ UNCHANGED <<serverPacksJSON, worldBehaviorsJSON, inventories, packDirs,
                   jsonFiles, addonDir, serverFiles, readOnly, suspended>>

uninstallWorldBehavior ==
    /\ Running("uninstallWorldBehavior")
    /\ LET uuid == Head(stack).arg.uuid
           location == Head(stack).arg.location
           packIndex == findIndexOf(worldBehaviorsJSON, "pack_id", uuid)
       IN /\ worldBehaviorsJSON' = RemoveFound(worldBehaviorsJSON, packIndex)
          /\ stack' = UninstallRest(packIndex, "worldBehaviorsJsonPath",
                                    worldBehaviorsJSON', location) \o Tail(stack)
          /\ hist' = UninstallHist(stack', "uninstallWorldBehavior", uuid,
                                   location, packIndex)
    /\ UNCHANGED <<serverPacksJSON, worldResourcesJSON, inventories, packDirs,
                   jsonFiles, addonDir, serverFiles, readOnly, suspended>>

uninstallServerPack ==
    /\ Running("uninstallServerPack")
    /\ LET uuid == Head(stack).arg.uuid
           location == Head(stack).arg.location
           packIndex == findIndexOf(serverPacksJSON, "uuid", uuid)
       IN /\ serverPacksJSON' = RemoveFound(serverPacksJSON, packIndex)
          /\ stack' = UninstallRest(packIndex, "serverPacksJsonPath",
                                    serverPacksJSON', location) \o Tail(stack)
          /\ hist' = UninstallHist(stack', "uninstallServerPack", uuid,
                                   location, packIndex)
    /\ UNCHANGED <<worldResourcesJSON, worldBehaviorsJSON, inventories, packDirs,
                   jsonFiles, addonDir, serverFiles, readOnly, suspended>>

\* The write of the document of an uninstall function has ended (lines 306,
\* 330, 354).
uninstall_written ==
    /\ Running("uninstall_written")
    /\ IF Head(stack).arg.path \in readOnly
       THEN /\ Throw(<<Event("uninstall:writeFile", Head(stack).arg.path)>>,
                     "EACCES")
            /\ UNCHANGED jsonFiles
       ELSE /\ jsonFiles' = writeFile(jsonFiles, Head(stack).arg.path,
                                      Head(stack).arg.text)
            /\ Return(Tail(stack), <<>>)
    /\ UNCHANGED <<registries, inventories, packDirs, addonDir, serverFiles, readOnly, suspended>>

\* An uninstall function that scans the directories again when it has
\* deleted the location.
uninstall_rescan ==
    /\ Running("uninstall_remove")
    /\ packDirs' = remove(packDirs, Head(stack).arg)
    /\ installedServerResources' =
           mapInstalledPacks("serverResourcesDir", packDirs'["serverResourcesDir"])
    /\ installedServerBehaviors' =
           mapInstalledPacks("serverBehaviorsDir", packDirs'["serverBehaviorsDir"])
    /\ installedWorldResources' =
           mapInstalledPacks("worldResourcesDir", packDirs'["worldResourcesDir"])
    /\ installedWorldBehaviors' =
           mapInstalledPacks("worldBehaviorsDir", packDirs'["worldBehaviorsDir"])
    /\ Return(Tail(stack), <<>>)
    /\ UNCHANGED <<registries, jsonFiles, addonDir, serverFiles, readOnly, suspended>>

\* The location of an uninstall function is deleted when it exists (lines
\* 311-314, 335-338, 359-362), and the function returns.
uninstall_remove ==
    /\ Running("uninstall_remove")
    /\ packDirs' = remove(packDirs, Head(stack).arg)
    /\ Return(Tail(stack), <<>>)
    /\ UNCHANGED <<registries, inventories, jsonFiles, addonDir, serverFiles, readOnly, suspended>>

----------------------------------------------------------------------------
\* uninstallAllWorldPacks (lines 265-288).

RECURSIVE SweepFrames(_, _, _)
\* One loop of the sweep: every pack of the world map is uninstalled from the
\* world and, when the server map holds its uuid, from the server.
SweepFrames(worldPacks, serverPacks, uninstallWorld) ==
    IF worldPacks = <<>> THEN <<>>
    ELSE LET pack == Head(worldPacks)
             serverPack == MapGet(serverPacks, pack.uuid)
         IN <<UninstallFrame(uninstallWorld, pack.uuid, pack.location)>>
            \o (IF serverPack # <<>>
                THEN <<UninstallFrame("uninstallServerPack", pack.uuid,
                                      serverPack[1].location)>>
                ELSE <<>>)
            \o SweepFrames(Tail(worldPacks), serverPacks, uninstallWorld)

uninstallAllWorldPacks ==
    /\ Running("uninstallAllWorldPacks")
    /\ Return(SweepFrames(installedWorldResources, installedServerResources,
                          "uninstallWorldResource")
              \o SweepFrames(installedWorldBehaviors, installedServerBehaviors,
                             "uninstallWorldBehavior")
              \o <<Frame("reloadPacks", "uninstallAllWorldPacks.return", <<>>)>>
              \o Tail(stack),
              <<Event("uninstallAllWorldPacks", <<>>)>>)
    /\ UNCHANGED <<registries, inventories, packDirs, jsonFiles, addonDir, serverFiles, readOnly, suspended>>

\* Lines 282-287: the four maps are scanned again.
reloadPacks ==
    /\ Running("reloadPacks")
    /\ installedServerResources' =
           mapInstalledPacks("serverResourcesDir", packDirs["serverResourcesDir"])
    /\ installedServerBehaviors' =
           mapInstalledPacks("serverBehaviorsDir", packDirs["serverBehaviorsDir"])
    /\ installedWorldResources' =
           mapInstalledPacks("worldResourcesDir", packDirs["worldResourcesDir"])
    /\ installedWorldBehaviors' =
           mapInstalledPacks("worldBehaviorsDir", packDirs["worldBehaviorsDir"])
    /\ Return(Tail(stack), <<Event("reloadPacks", <<>>)>>)
    /\ UNCHANGED <<registries, packDirs, jsonFiles, addonDir, serverFiles, readOnly, suspended>>

----------------------------------------------------------------------------
\* installAllAddons (lines 173-189).

\* A loop that ends after its first entry.
BatchFramesOne(packs) ==
    IF packs = <<>> THEN <<>>
    ELSE <<InstallAddonFrame(Head(packs), "batch"),
           Frame("endTry", "endTry", Head(packs))>>

RECURSIVE BatchFrames(_)
\* The for loop: each entry is installed inside its own try.
BatchFrames(packs) ==
    IF packs = <<>> THEN <<>>
    ELSE <<InstallAddonFrame(Head(packs), "batch"),
           Frame("endTry", "endTry", Head(packs))>>
         \o BatchFrames(Tail(packs))

\* let packs = await fs.readdir(addonPath)
readdir ==
    /\ Running("readdir")
    /\ LET packs == SeqOfSet(FileOrder, DOMAIN addonDir)
       IN Return(BatchFrames(packs) \o Tail(stack), <<Event("readdir", packs)>>)
    /\ UNCHANGED <<registries, inventories, packDirs, jsonFiles, addonDir, serverFiles, readOnly, suspended>>

\* An installAddon of the batch returned without an exception.
endTry ==
    /\ Running("endTry")
    /\ Return(Tail(stack), <<>>)
    /\ UNCHANGED <<registries, inventories, packDirs, jsonFiles, addonDir, serverFiles, readOnly, suspended>>

----------------------------------------------------------------------------
\* extractAddonPacks (lines 373-418).

RECURSIVE MovePacksUnnamed(_, _, _, _)
\* A decomposition that keeps the names of the entries.
MovePacksUnnamed(addonName, packs, dir, results) ==
    IF packs = <<>> THEN [dir |-> dir, results |-> results, failed |-> FALSE]
    ELSE LET pack == Head(packs)
         IN MovePacksUnnamed(addonName, Tail(packs),
                             (pack.name :> pack.content) @@ dir,
                             Append(results, pack.name))

RECURSIVE MovePacks(_, _, _, _)
\* The for loop over the extracted entries: a packaged entry is moved (which
\* fails when the destination exists), a folder is zipped to the destination.
MovePacks(addonName, packs, dir, results) ==
    IF packs = <<>> THEN [dir |-> dir, results |-> results, failed |-> FALSE]
    ELSE LET pack == Head(packs)
             packaged == Last(pack.name) = ".mcpack"
             packName == IF packaged THEN addonName \o <<"_">> \o pack.name
                         ELSE addonName \o <<"_">> \o pack.name \o <<".mcpack">>
         IN IF packaged /\ packName \in DOMAIN dir
            THEN [dir |-> dir, results |-> results, failed |-> TRUE]
            ELSE MovePacks(addonName, Tail(packs),
                           (packName :> pack.content) @@ dir,
                           Append(results, packName))

RECURSIVE InstallFrames(_)
\* for (const pack of packs) await this.installAddon(pack)
InstallFrames(packs) ==
    IF packs = <<>> THEN <<>>
    ELSE <<InstallAddonFrame(Head(packs), "addon")>> \o InstallFrames(Tail(packs))

extractAddonPacks ==
    /\ Running("extractAddonPacks")
    /\ LET addonPath == Head(stack).arg
       IN IF addonPath \notin DOMAIN addonDir \/ Last(addonPath) # ".mcaddon"
          THEN /\ Throw(<<>>, "not an addon")
               /\ UNCHANGED addonDir
          ELSE LET addonName == SelectSeq(addonPath, LAMBDA t : t # ".mcaddon")
                   extracted == (P_tmp :> Archive(<<>>, <<>>)) @@ addonDir
                   moved == MovePacks(addonName, addonDir[addonPath].entries,
                                      extracted, <<>>)
               IN IF moved.failed
                  THEN /\ addonDir' = moved.dir
                       /\ Throw(<<>>, "dest already exists")
                  ELSE /\ addonDir' =
                              [f \in DOMAIN moved.dir \ {P_tmp, addonPath} |->
                                  moved.dir[f]]
                       /\ Return(InstallFrames(moved.results) \o Tail(stack),
                                 <<Event("extractAddonPacks", moved.results)>>)
    /\ UNCHANGED <<registries, inventories, packDirs, jsonFiles, serverFiles, readOnly, suspended>>

----------------------------------------------------------------------------

Next ==
    \/ CallInstallAddon
    \/ CallInstallAllAddons
    \/ NewSession
    \/ installAddon
    \/ extractAddonPacks
    \/ installPack
    \/ installPack_249
    \/ installPack_252
    \/ installPack_256
    \/ installPack_257
    \/ uninstall_written
    \/ uninstall_remove
    \/ uninstallWorldResource
    \/ uninstallWorldBehavior
    \/ uninstallServerPack
    \/ uninstallAllWorldPacks
    \/ reloadPacks
    \/ readdir
    \/ endTry

Spec == Init /\ [][Next]_vars

\* A step of the call in progress: the continuation of an awaited promise,
\* which the event loop runs when the promise settles.
Continue ==
    \/ installAddon
    \/ extractAddonPacks
    \/ installPack
    \/ installPack_249
    \/ installPack_252
    \/ installPack_256
    \/ installPack_257
    \/ uninstall_written
    \/ uninstall_remove
    \/ uninstallWorldResource
    \/ uninstallWorldBehavior
    \/ uninstallServerPack
    \/ uninstallAllWorldPacks
    \/ reloadPacks
    \/ readdir
    \/ endTry

\* The servers on which the operator has put the bundle of four packs into
\* BDS-Addons.
BundleInit == Init /\ P_qk \in DOMAIN addonDir

\* The installer on these servers, every call of which runs to its end.
BundleSpec == BundleInit /\ [][Next]_vars /\ WF_vars(Continue)

\* The installer on a server one document of which cannot be written.
FaultSpec == FaultInit /\ [][Next]_vars

\* installer.installAddon(packPath) while the promise of the installAddon
\* before it is pending: the first call has run to its first await and
\* waits there, the caller goes on to the next statement. Both calls are
\* given a pack file.
CallUnawaited ==
    \E packPath \in DOMAIN addonDir :
        /\ stack # <<>>
        /\ suspended = <<>>
        /\ hist.last = "call"
        /\ hist.calls[Len(hist.calls)].op = "installAddon"
        /\ Last(hist.calls[Len(hist.calls)].arg) = ".mcpack"
        /\ Last(packPath) = ".mcpack"
        /\ Len(hist.calls) < MaxCalls
        /\ suspended' = <<stack>>
        /\ stack' = <<InstallAddonFrame(packPath, "api")>>
        /\ hist' = [hist EXCEPT
               !.calls = Append(@, [op |-> "installAddon", arg |-> packPath]),
               !.log = Append(@, Event("unawaited", packPath))]
        /\ UNCHANGED <<registries, inventories, packDirs, jsonFiles, addonDir,
                       serverFiles, readOnly>>

\* The promise the other call awaits settles first (or the running call has
\* ended): the event loop runs the continuation of the other call.
Settle ==
    /\ suspended # <<>>
    /\ stack' = suspended[1]
    /\ suspended' = IF stack = <<>> THEN <<>> ELSE <<stack>>
    /\ UNCHANGED <<registries, inventories, packDirs, jsonFiles, addonDir,
                   serverFiles, readOnly, hist>>

\* The installer as the README uses it: a call may be made while the call
\* before it is pending.
OverlapNext == Next \/ CallUnawaited \/ Settle

\* The servers it is used on here: one without packs, and one on which this
\* tool installed packs.
OverlapServers ==
    {Server({}, {}, "listed", ServerFiles),
     Server({M_a100, M_c100}, {M_a100, M_c100}, "listed", ServerFiles)}

OverlapInit == InitWith(OverlapServers, {})

OverlapSpec == OverlapInit /\ [][OverlapNext]_vars

----------------------------------------------------------------------------
\* Vocabulary of the properties.

Idle == stack = <<>>

LastCall == hist.calls[Len(hist.calls)]

PrevCall == hist.calls[Len(hist.calls) - 1]

\* The entries of a registry sequence that carry (or do not carry) an id.
EntriesOf(array, key, uuid) == SelectSeq(array, LAMBDA e : e[key] = uuid)

OtherEntries(array, key, uuid) == SelectSeq(array, LAMBDA e : e[key] # uuid)

Registered(array, key, uuid) == \E i \in 1..Len(array) : array[i][key] = uuid

\* The names of the subdirectories of a pack directory that hold a pack id.
DirsOf(tree, uuid) ==
    {n \in DOMAIN tree : tree[n] # <<>> /\ tree[n][1].header.uuid = uuid}

\* An archive installAddon installs without an exception.
Installable(packPath, archive) ==
    /\ Last(packPath) = ".mcpack"
    /\ archive.manifest # <<>>
    /\ ~ManifestVersionThrows(archive.manifest[1])
    /\ ~UnknownManifestFormat(archive.manifest[1])
    /\ ManifestType(archive.manifest[1]) \in {"resources", "data"}

WorldJSONOf(type) ==
    IF type = "data" THEN worldBehaviorsJSON ELSE worldResourcesJSON

\* The events of the log of the current call with a given name.
LogOf(ev) == SelectSeq(hist.log, LAMBDA e : e.ev = ev)

\* The last two calls were installAddon(p) and installAddon(q) of files the
\* operator provided.
TwoInstalls(p, q) ==
    /\ Len(hist.calls) >= 2
    /\ PrevCall.op = "installAddon" /\ PrevCall.arg = p
    /\ LastCall.op = "installAddon" /\ LastCall.arg = q

----------------------------------------------------------------------------
\* C1. Idempotence: after installAddon(p) was called twice in a row on one
\* installer, the three registry sequences and the pack directories are what
\* they were after the first call.
C1_Idempotent ==
    (/\ Idle
     /\ \E p \in DOMAIN FileContent \cup {P_gone} : TwoInstalls(p, p))
    => /\ serverPacksJSON = hist.pre.server
       /\ worldResourcesJSON = hist.pre.worldResources
       /\ worldBehaviorsJSON = hist.pre.worldBehaviors
       /\ packDirs = hist.pre.dirs

\* C2. Version-triggered reinstall: after installAddon of version v and then
\* of version v' # v of one id, the second call has uninstalled the id (each
\* scope at most once) and installed it once, and the server registry and
\* the world registry of the pack's type hold an entry of the id with v' and
\* none with v.
C2_VersionReinstall ==
    \A p, q \in DOMAIN FileContent :
        (/\ Idle
         /\ TwoInstalls(p, q)
         /\ Installable(p, FileContent[p]) /\ Installable(q, FileContent[q])
         /\ FileContent[p].manifest[1].header.uuid
                = FileContent[q].manifest[1].header.uuid
         /\ ManifestVersion(FileContent[p].manifest[1])
                # ManifestVersion(FileContent[q].manifest[1]))
        => LET uuid == FileContent[q].manifest[1].header.uuid
               v == ManifestVersion(FileContent[p].manifest[1])
               w == ManifestVersion(FileContent[q].manifest[1])
               world == WorldJSONOf(ManifestType(FileContent[q].manifest[1]))
               uninstalledServer == Len(LogOf("uninstallServerPack"))
               uninstalledWorld == Len(LogOf("uninstallWorldResource"))
                                   + Len(LogOf("uninstallWorldBehavior"))
           IN /\ Len(LogOf("installPack")) = 1
              /\ uninstalledServer <= 1 /\ uninstalledWorld <= 1
              /\ uninstalledServer + uninstalledWorld >= 1
              /\ \E i \in 1..Len(serverPacksJSON) :
                     /\ serverPacksJSON[i].uuid = uuid
                     /\ serverPacksJSON[i].version = ServerVersionString(w)
              /\ \A i \in 1..Len(serverPacksJSON) :
                     serverPacksJSON[i].uuid = uuid
                         => serverPacksJSON[i].version # ServerVersionString(v)
              /\ \E i \in 1..Len(world) :
                     world[i].pack_id = uuid /\ world[i].version = w
              /\ \A i \in 1..Len(world) :
                     world[i].pack_id = uuid => world[i].version # v

\* C3. Convergence: after installAllAddons on a BDS-Addons directory that
\* holds installable packs only, every one of them has a directory in the
\* server tree and in the world tree of its type and an entry in the server
\* registry and in the world registry of its type, all at its version.
C3_Converges ==
    (/\ Idle
     /\ Len(hist.calls) >= 1
     /\ LastCall.op = "installAllAddons"
     /\ \A f \in DOMAIN addonDir : Installable(f, addonDir[f]))
    => \A f \in DOMAIN addonDir :
           LET manifest == addonDir[f].manifest[1]
               uuid == manifest.header.uuid
               version == ManifestVersion(manifest)
               type == ManifestType(manifest)
               InTree(tree) ==
                   \E n \in DirsOf(tree, uuid) :
                       ManifestVersion(tree[n][1]) = version
           IN /\ InTree(packDirs[ServerDirOf(type)])
              /\ InTree(packDirs[WorldDirOf(type)])
              /\ \E i \in 1..Len(serverPacksJSON) :
                     /\ serverPacksJSON[i].uuid = uuid
                     /\ serverPacksJSON[i].version = ServerVersionString(version)
              /\ \E i \in 1..Len(WorldJSONOf(type)) :
                     /\ WorldJSONOf(type)[i].pack_id = uuid
                     /\ WorldJSONOf(type)[i].version = version

\* The sweep of installAllAddons(true) runs, or has just returned: it is the
\* first thing the call does, so hist.pre is the state before the sweep.
SweepDone == hist.last = "uninstallAllWorldPacks.return"

InSweep == \E i \in 1..Len(stack) : stack[i].op = "reloadPacks"

\* The ids of a registry sequence.
IdsOf(array, key) == {array[i][key] : i \in 1..Len(array)}

\* C4. Removal half of the sweep: when uninstallAllWorldPacks has returned,
\* no id that had an entry in a world registry before the sweep has an entry
\* in that world registry or in the server registry.
C4_SweepRemoves ==
    SweepDone
    => /\ \A uuid \in IdsOf(hist.pre.worldResources, "pack_id") :
              /\ ~Registered(worldResourcesJSON, "pack_id", uuid)
              /\ ~Registered(serverPacksJSON, "uuid", uuid)
       /\ \A uuid \in IdsOf(hist.pre.worldBehaviors, "pack_id") :
              /\ ~Registered(worldBehaviorsJSON, "pack_id", uuid)
              /\ ~Registered(serverPacksJSON, "uuid", uuid)

\* The ids found in the subdirectories of a pack directory.
IdsIn(tree) == {tree[n][1].header.uuid : n \in {m \in DOMAIN tree : tree[m] # <<>>}}

\* C5. Preservation half of the sweep: while uninstallAllWorldPacks runs and
\* when it has returned, an id without a record in the two world inventory
\* maps has the server registry entries it had before the sweep, and every
\* server directory that held it before the sweep still holds it.
C5_SweepPreserves ==
    (InSweep \/ SweepDone)
    => \A uuid \in IdsOf(hist.pre.server, "uuid")
                   \cup IdsIn(hist.pre.dirs["serverResourcesDir"])
                   \cup IdsIn(hist.pre.dirs["serverBehaviorsDir"]) :
           (/\ ~MapHas(hist.pre.installed["worldResourcesDir"], uuid)
            /\ ~MapHas(hist.pre.installed["worldBehaviorsDir"], uuid))
           => /\ EntriesOf(serverPacksJSON, "uuid", uuid)
                     = EntriesOf(hist.pre.server, "uuid", uuid)
              /\ \A dir \in {"serverResourcesDir", "serverBehaviorsDir"} :
                     \A n \in DirsOf(hist.pre.dirs[dir], uuid) :
                         /\ n \in DOMAIN packDirs[dir]
                         /\ packDirs[dir][n] = hist.pre.dirs[dir][n]

\* The paths installAllAddons passed to installAddon, in the order of the
\* calls.
RECURSIVE BatchPaths(_)
BatchPaths(log) ==
    IF log = <<>> THEN <<>>
    ELSE (IF Head(log).ev = "installAddon" /\ Head(log).arg.src = "batch"
          THEN <<Head(log).arg.packPath>> ELSE <<>>)
         \o BatchPaths(Tail(log))

\* C6. Best-effort batch: when installAllAddons has ended it has resolved,
\* and the loop has passed every entry readdir listed to installAddon exactly
\* once, in the order of the listing, whatever the entries before it threw.
C6_BestEffortBatch ==
    (/\ Idle
     /\ Len(hist.calls) >= 1
     /\ LastCall.op = "installAllAddons")
    => /\ hist.outcome = "resolved"
       /\ Len(LogOf("readdir")) = 1
       /\ BatchPaths(hist.log) = LogOf("readdir")[1].arg
       /\ LogOf("thrown") = <<>>

\* An installAllAddons has ended in which an entry threw and a later entry
\* was installed.
C6_Witness ==
    /\ Idle
    /\ Len(hist.calls) >= 1
    /\ LastCall.op = "installAllAddons"
    /\ \E i, j \in 1..Len(hist.log) :
           /\ i < j
           /\ hist.log[i].ev = "caught"
           /\ hist.log[j].ev = "installed"

\* The call is installer.installAddon of a pack file, and installAddon has
\* taken its decision on it.
DirectInstall ==
    /\ Len(hist.calls) >= 1
    /\ LastCall.op = "installAddon"
    /\ hist.ia # <<>>
    /\ hist.ia[1].packPath = LastCall.arg

\* The inventory records of the id of the pack in the maps of its type, as
\* they were when installAddon looked them up.
RecordsOf(ia) ==
    {r \in Range(ia.pre.installed[WorldDirOf(ia.type)])
               \cup Range(ia.pre.installed[ServerDirOf(ia.type)]) :
        r.uuid = ia.uuid}

\* C7. No-op decision: an installAddon of a pack of type resources or data
\* that found records of the id, all of the version of the pack, leaves the
\* registry sequences, the documents and the directories as they were and
\* installs nothing; one that found a record of another version has called
\* installPack when it ends.
C7_NoOpDecision ==
    (DirectInstall /\ hist.ia[1].type \in {"resources", "data"})
    => LET ia == hist.ia[1]
           records == RecordsOf(ia)
       IN /\ (records # {} /\ \A r \in records : r.version = ia.version)
              => /\ Idle
                 /\ hist.outcome = "resolved"
                 /\ hist.log = <<Event("installAddon",
                                       [packPath |-> ia.packPath, src |-> "api"])>>
                 /\ serverPacksJSON = hist.pre.server
                 /\ worldResourcesJSON = hist.pre.worldResources
                 /\ worldBehaviorsJSON = hist.pre.worldBehaviors
                 /\ jsonFiles = hist.pre.files
                 /\ packDirs = hist.pre.dirs
          /\ (\E r \in records : r.version # ia.version)
              => /\ ~Idle \/ Len(LogOf("installPack")) = 1
                 /\ hist.last = "installAddon" => ~Idle

\* An installAddon of a pack whose id has a world record and a server
\* record of its version has ended.
C7_Witness ==
    /\ DirectInstall
    /\ Idle
    /\ hist.ia[1].installedWorldPack # <<>>
    /\ hist.ia[1].installedServerPack # <<>>
    /\ \A r \in RecordsOf(hist.ia[1]) : r.version = hist.ia[1].version

\* A registry sequence without the first entry of an id.
RECURSIVE RemoveFirst(_, _, _)
RemoveFirst(array, key, uuid) ==
    IF array = <<>> THEN <<>>
    ELSE IF Head(array)[key] = uuid THEN Tail(array)
    ELSE <<Head(array)>> \o RemoveFirst(Tail(array), key, uuid)

\* The pack directories without the locations of a set of records.
WithoutLocations(dirs, records) ==
    [dir \in DOMAIN dirs |->
        [n \in DOMAIN dirs[dir]
               \ {r.location.name : r \in {x \in records : x.location.dir = dir}}
            |-> dirs[dir][n]]]

\* C8. Uninstall before install: when installPack starts for a pack whose id
\* had a record of another version, every record of the id, the one of the
\* version of the pack included, has been uninstalled (the first entry of
\* the id is out of the registry of the record, its location is deleted) and
\* nothing else has changed: no entry is inserted and nothing is extracted.
C8_UninstallBeforeInstall ==
    (/\ Running("installPack")
     /\ hist.ia # <<>>
     /\ \E r \in RecordsOf(hist.ia[1]) : r.version # hist.ia[1].version)
    => LET ia == hist.ia[1]
           records == RecordsOf(ia)
           world == ia.pre.installed[WorldDirOf(ia.type)]
           server == ia.pre.installed[ServerDirOf(ia.type)]
           Was(array, key, map) ==
               IF MapHas(map, ia.uuid) THEN RemoveFirst(array, key, ia.uuid)
               ELSE array
       IN /\ serverPacksJSON = Was(ia.pre.server, "uuid", server)
          /\ worldResourcesJSON =
                 IF ia.type = "resources"
                 THEN Was(ia.pre.worldResources, "pack_id", world)
                 ELSE ia.pre.worldResources
          /\ worldBehaviorsJSON =
                 IF ia.type = "data"
                 THEN Was(ia.pre.worldBehaviors, "pack_id", world)
                 ELSE ia.pre.worldBehaviors
          /\ packDirs = WithoutLocations(ia.pre.dirs, records)
          /\ \A r \in records : r.location.name \notin DOMAIN packDirs[r.location.dir]

\* installPack starts for a pack whose id had a record of its version in one
\* scope and a record of another version in the other, both of them with an
\* entry and a directory.
C8_Witness ==
    /\ Running("installPack")
    /\ hist.ia # <<>>
    /\ LET ia == hist.ia[1]
       IN /\ \E r \in RecordsOf(ia) : r.version # ia.version
          /\ \E r \in RecordsOf(ia) : r.version = ia.version
          /\ Registered(ia.pre.server, "uuid", ia.uuid)
          /\ Registered(ia.pre.worldResources, "pack_id", ia.uuid)
          /\ \A r \in RecordsOf(ia) :
                 r.location.name \in DOMAIN ia.pre.dirs[r.location.dir]

\* installPack has just returned.
Installed == hist.last = "installPack.return" /\ hist.ip # <<>>

\* The world sequence of a type in a snapshot.
WorldOf(snapshot, type) ==
    IF type = "data" THEN snapshot.worldBehaviors ELSE snapshot.worldResources

\* The entries installPack makes for its pack.
NewWorldEntry(ctx) == [pack_id |-> ctx.uuid, version |-> ctx.version]

NewServerEntry(ctx) ==
    [file_system |-> "RawPath",
     path |-> RawPathOf(ctx.type, ctx.name),
     uuid |-> ctx.uuid,
     version |-> ServerVersionString(ctx.version)]

\* The new entries are at (0-based) index 0 of the world sequence and at
\* index `at` of the server sequence, the entries before the install follow
\* in their order.
InsertedAt(at) ==
    LET ctx == hist.ip[1].ctx
        pre == hist.ip[1].pre
        world == WorldJSONOf(ctx.type)
    IN /\ world = <<NewWorldEntry(ctx)>> \o WorldOf(pre, ctx.type)
       /\ Len(serverPacksJSON) = Len(pre.server) + 1
       /\ at < Len(serverPacksJSON)
       /\ serverPacksJSON[at + 1] = NewServerEntry(ctx)
       /\ SubSeq(serverPacksJSON, 1, at) = SubSeq(pre.server, 1, at)
       /\ SubSeq(serverPacksJSON, at + 2, Len(serverPacksJSON))
              = SubSeq(pre.server, at + 1, Len(pre.server))

\* C9. Insertion positions: when installPack has returned, the world entry
\* of its pack is at index 0 of the world sequence of the type and the server
\* entry at index 1 of the server sequence, or at index 0 when the server
\* sequence was empty; the entries before the install keep their order.
C9_InsertionPositions ==
    Installed => InsertedAt(MinOf(1, Len(hist.ip[1].pre.server)))

\* C9 as the specification states it: the server entry is at index 1 for
\* every prior content of the server sequence.
C9_ServerIndexOne ==
    Installed => InsertedAt(1)

\* installPack has returned on a server sequence that held an entry after
\* its first one.
C9_Witness ==
    /\ Installed
    /\ Len(hist.ip[1].pre.server) >= 2
    /\ WorldOf(hist.ip[1].pre, hist.ip[1].ctx.type) # <<>>

\* An uninstall function has just returned.
Uninstalled == hist.last = "uninstall.return" /\ hist.un # <<>>

\* C10. Tolerant absence: when an uninstall function has returned that found
\* no entry of the id in its sequence, or no directory at the location, the
\* call has not been rejected, the entries of the other ids of the three
\* sequences are the ones before it, in their order, and so are the
\* directories other than the location; an absent entry leaves the sequences
\* unchanged, an absent location the directories.
C10_TolerantAbsence ==
    (Uninstalled /\ (hist.un[1].packIndex = -1 \/ ~hist.un[1].existed))
    => LET un == hist.un[1]
           pre == un.pre
       IN /\ hist.outcome # "rejected"
          /\ LogOf("thrown") = <<>>
          /\ OtherEntries(serverPacksJSON, "uuid", un.uuid)
                 = OtherEntries(pre.server, "uuid", un.uuid)
          /\ OtherEntries(worldResourcesJSON, "pack_id", un.uuid)
                 = OtherEntries(pre.worldResources, "pack_id", un.uuid)
          /\ OtherEntries(worldBehaviorsJSON, "pack_id", un.uuid)
                 = OtherEntries(pre.worldBehaviors, "pack_id", un.uuid)
          /\ \A dir \in DirKeys :
                 /\ DOMAIN packDirs[dir] \ {un.location.name}
                        = DOMAIN pre.dirs[dir] \ {un.location.name}
                 /\ \A n \in DOMAIN pre.dirs[dir] :
                        (dir # un.location.dir \/ n # un.location.name)
                            => /\ n \in DOMAIN packDirs[dir]
                               /\ packDirs[dir][n] = pre.dirs[dir][n]
          /\ un.packIndex = -1
                 => /\ serverPacksJSON = pre.server
                    /\ worldResourcesJSON = pre.worldResources
                    /\ worldBehaviorsJSON = pre.worldBehaviors
                    /\ jsonFiles = pre.files
          /\ ~un.existed => packDirs = pre.dirs

\* An uninstall function has returned that found no entry of the id in its
\* sequence, which held entries of other ids.
C10_Witness ==
    /\ Uninstalled
    /\ hist.un[1].packIndex = -1
    /\ LET pre == hist.un[1].pre
       IN IF hist.un[1].scope = "uninstallServerPack" THEN pre.server # <<>>
          ELSE IF hist.un[1].scope = "uninstallWorldResource"
          THEN pre.worldResources # <<>>
          ELSE pre.worldBehaviors # <<>>

\* extractAddonPacks has just returned the paths of the packs of a bundle.
Decomposed ==
    /\ hist.last = "extractAddonPacks"
    /\ hist.log # <<>>
    /\ hist.log[Len(hist.log)].ev = "extractAddonPacks"

\* The bundle the last installAddon was called on.
BundleOf(log) == LogOf("installAddon")[Len(LogOf("installAddon"))].arg.packPath

\* <bundleBase>_<entryName>, with the pack extension for a raw directory.
PackNameOf(bundle, entry) ==
    SubSeq(bundle, 1, Len(bundle) - 1) \o <<"_">> \o entry.name
        \o (IF Last(entry.name) = ".mcpack" THEN <<>> ELSE <<".mcpack">>)

\* C11. Decomposition completeness: when extractAddonPacks has returned for
\* a bundle of N top-level entries, it has returned N paths, the k-th named
\* <bundleBase>_<name of the k-th entry> (with .mcpack appended for a raw
\* directory) and holding the pack of that entry in the BDS-Addons directory;
\* the bundle and the tmp/ directory are not in BDS-Addons.
C11_Decomposition ==
    Decomposed
    => LET bundle == BundleOf(hist.log)
           entries == FileContent[bundle].entries
           results == hist.log[Len(hist.log)].arg
       IN /\ Len(results) = Len(entries)
          /\ \A k \in 1..Len(entries) :
                 /\ results[k] = PackNameOf(bundle, entries[k])
                 /\ results[k] \in DOMAIN addonDir
                 /\ addonDir[results[k]] = entries[k].content
          /\ bundle \notin DOMAIN addonDir
          /\ P_tmp \notin DOMAIN addonDir

\* extractAddonPacks has returned for a bundle that holds a packaged pack
\* and a raw directory.
C11_Witness ==
    /\ Decomposed
    /\ LET entries == FileContent[BundleOf(hist.log)].entries
       IN /\ \E k \in 1..Len(entries) : Last(entries[k].name) = ".mcpack"
          /\ \E k \in 1..Len(entries) : Last(entries[k].name) # ".mcpack"

\* A constructor has just run on the server directory, which held its
\* directories and a server.properties with a level-name.
Constructed ==
    /\ hist.last = "constructor"
    /\ hist.log[1].arg = ServerPath
    /\ serverFiles = ServerFiles

\* The resident registry sequence of a document.
ResidentOf(path) ==
    CASE path = "serverPacksJsonPath" -> serverPacksJSON
      [] path = "worldResourcesJsonPath" -> worldResourcesJSON
      [] path = "worldBehaviorsJsonPath" -> worldBehaviorsJSON

\* The load policy of one document: a missing document is created empty and
\* loaded as the empty sequence, a document that does not parse to a
\* sequence is left and loaded as the empty sequence, a well-formed one is
\* left and loaded as it is.
LoadedByPolicy(path) ==
    LET before == hist.pre.files[path]
    IN IF before.text = "missing"
       THEN jsonFiles[path].text = "empty" /\ ResidentOf(path) = <<>>
       ELSE /\ jsonFiles[path] = before
            /\ ResidentOf(path) = IF before.text = "array" THEN before.value
                                  ELSE <<>>

\* C12. Registry load policy: a constructor that finds valid_known_packs.json
\* returns, and has loaded each of the three documents by the policy; one
\* that does not find valid_known_packs.json throws and creates no document.
C12_LoadPolicy ==
    Constructed
    => IF hist.pre.files["serverPacksJsonPath"].text = "missing"
       THEN /\ hist.outcome = "rejected"
            /\ jsonFiles = hist.pre.files
       ELSE /\ hist.outcome = "resolved"
            /\ \A path \in JsonPaths : LoadedByPolicy(path)

\* C12 as the specification states it: no state of a document makes the
\* constructor throw, and each of the three documents is loaded by the
\* policy.
C12_NeverFatal ==
    Constructed
    => /\ hist.outcome = "resolved"
       /\ \A path \in JsonPaths : LoadedByPolicy(path)

\* A constructor has returned on a server whose three documents were in
\* three different states, one of them missing.
C12_Witness ==
    /\ Constructed
    /\ hist.outcome = "resolved"
    /\ \E path \in JsonPaths : hist.pre.files[path].text = "missing"
    /\ \E path \in JsonPaths : hist.pre.files[path].text = "garbage"
    /\ \E path \in JsonPaths : hist.pre.files[path].text = "object"

\* The entries a document holds, as a session reads them.
DocumentEntries(path) == ParseOrEmpty(jsonFiles[path])

FirstInstall ==
    /\ Idle
    /\ Len(hist.calls) = 1
    /\ DirectInstall
    /\ hist.outcome = "resolved"

\* A registry sequence held an entry of an id whose directory is absent from
\* the tree of the scope.
RegisteredButAbsent(array, key, tree, uuid) ==
    Registered(array, key, uuid) /\ DirsOf(tree, uuid) = {}

\* C14. Crash recovery, registered but absent: when the first installAddon
\* on an installer installs a pack whose id a registry held while no
\* directory of that scope held it, that registry holds exactly one entry of
\* the id after the call.
C14_StaleEntryReplaced ==
    FirstInstall
    => LET ia == hist.ia[1]
       IN ia.type \in {"resources", "data"}
          => /\ RegisteredButAbsent(hist.pre.server, "uuid",
                                    hist.pre.dirs[ServerDirOf(ia.type)], ia.uuid)
                => Len(EntriesOf(serverPacksJSON, "uuid", ia.uuid)) = 1
             /\ RegisteredButAbsent(IF ia.type = "data"
                                    THEN hist.pre.worldBehaviors
                                    ELSE hist.pre.worldResources, "pack_id",
                                    hist.pre.dirs[WorldDirOf(ia.type)], ia.uuid)
                => Len(EntriesOf(WorldJSONOf(ia.type), "pack_id", ia.uuid)) = 1

\* The current call is the first one made on its installer.
OnNewSession ==
    /\ hist.calls # <<>>
    /\ Len(hist.calls) = 1 \/ PrevCall.op = "constructor"

\* The registry sequences of the two scopes of a pack type, as a snapshot
\* holds them.
ScopesOf(snapshot, type) ==
    {[array |-> snapshot.server, key |-> "uuid",
      tree |-> snapshot.dirs[ServerDirOf(type)]],
     [array |-> IF type = "data" THEN snapshot.worldBehaviors
                ELSE snapshot.worldResources, key |-> "pack_id",
      tree |-> snapshot.dirs[WorldDirOf(type)]]}

\* A scope held a directory of the id and no registry entry of it.
PresentButUnregistered(snapshot, type, uuid) ==
    \E scope \in ScopesOf(snapshot, type) :
        /\ DirsOf(scope.tree, uuid) # {}
        /\ ~Registered(scope.array, scope.key, uuid)

\* Every directory of the id, in both scopes, holds one version.
OnlyVersion(snapshot, type, uuid, version) ==
    \A scope \in ScopesOf(snapshot, type) :
        \A n \in DirsOf(scope.tree, uuid) :
            ManifestVersion(scope.tree[n][1]) = version

\* C15. Crash recovery, present but unregistered: when the first installAddon
\* on an installer is given a pack whose id a scope holds as a directory
\* without a registry entry, at the version of the pack, the scan of the
\* constructor has recorded the id for every scope that holds it, and the
\* call changes no registry sequence, document or directory and returns
\* without installPack or an uninstall.
C15_AlreadyInstalled ==
    (/\ OnNewSession
     /\ DirectInstall
     /\ hist.ia[1].type \in {"resources", "data"}
     /\ PresentButUnregistered(hist.pre, hist.ia[1].type, hist.ia[1].uuid)
     /\ OnlyVersion(hist.pre, hist.ia[1].type, hist.ia[1].uuid,
                    hist.ia[1].version))
    => LET ia == hist.ia[1]
       IN /\ ia.installedWorldPack # <<>>
                <=> DirsOf(hist.pre.dirs[WorldDirOf(ia.type)], ia.uuid) # {}
          /\ ia.installedServerPack # <<>>
                <=> DirsOf(hist.pre.dirs[ServerDirOf(ia.type)], ia.uuid) # {}
          /\ Idle /\ hist.outcome = "resolved"
          /\ serverPacksJSON = hist.pre.server
          /\ worldResourcesJSON = hist.pre.worldResources
          /\ worldBehaviorsJSON = hist.pre.worldBehaviors
          /\ jsonFiles = hist.pre.files
          /\ packDirs = hist.pre.dirs
          /\ LogOf("installPack") = <<>>
          /\ hist.un = <<>>

\* installAddon has returned on a server whose directories held the pack in
\* both scopes while the registries held no entry of it.
C15_Witness ==
    /\ OnNewSession
    /\ DirectInstall
    /\ hist.ia[1].type \in {"resources", "data"}
    /\ \A scope \in ScopesOf(hist.pre, hist.ia[1].type) :
           /\ DirsOf(scope.tree, hist.ia[1].uuid) # {}
           /\ ~Registered(scope.array, scope.key, hist.ia[1].uuid)
    /\ OnlyVersion(hist.pre, hist.ia[1].type, hist.ia[1].uuid,
                   hist.ia[1].version)
    /\ Idle

\* The input of the last constructor was bad: no server path, a path that
\* does not exist, a required server file missing, or no level-name to be
\* read from server.properties.
BadInput ==
    \/ hist.log[1].arg # ServerPath
    \/ {"behavior_packs", "resource_packs"} \ serverFiles # {}
    \/ hist.pre.files["serverPacksJsonPath"].text = "missing"
    \/ {"server.properties", "level-name"} \ serverFiles # {}

\* C16. Construction is fatal on bad input: a constructor given no server
\* path, a path that does not exist, a server directory that lacks a
\* required file, or one whose server.properties is missing or holds no
\* level-name, throws, and the three documents are what they were: none is
\* created, none is changed.
C16_FatalOnBadInput ==
    (hist.last = "constructor" /\ BadInput)
    => /\ hist.outcome = "rejected"
       /\ Len(hist.log) = 2 /\ hist.log[2].ev = "thrown"
       /\ jsonFiles = hist.pre.files

\* A constructor has thrown on a server directory without a level-name, in
\* which a document was missing.
C16_Witness ==
    /\ hist.last = "constructor"
    /\ hist.log[1].arg = ServerPath
    /\ "level-name" \notin serverFiles
    /\ hist.outcome = "rejected"
    /\ \E path \in JsonPaths : hist.pre.files[path].text = "missing"

\* Every id appears at most once in a registry sequence.
Unique(array, key) ==
    \A i, j \in 1..Len(array) : array[i][key] = array[j][key] => i = j

\* Every call so far was made on the installer constructed first, whose
\* registries held every id at most once.
OneSession ==
    /\ ~NoSession
    /\ \A i \in 1..Len(hist.calls) : hist.calls[i].op # "constructor"

\* C17. Registry uniqueness: whenever the installer constructed on the
\* server is idle, after any installAddon and installAllAddons calls, every
\* id appears at most once in the server sequence, in the world resources
\* sequence and in the world behaviors sequence.
C17_Unique ==
    (Idle /\ OneSession)
    => /\ Unique(serverPacksJSON, "uuid")
       /\ Unique(worldResourcesJSON, "pack_id")
       /\ Unique(worldBehaviorsJSON, "pack_id")

\* The servers of Init hold every id at most once in each registry.
C17_UniqueAtStart ==
    hist.calls = <<>>
    => /\ Unique(serverPacksJSON, "uuid")
       /\ Unique(worldResourcesJSON, "pack_id")
       /\ Unique(worldBehaviorsJSON, "pack_id")

\* The ids with an entry in the registry of a scope and kind: the world
\* sequence of the kind, or the entries of the server sequence whose path
\* lies in the directory of the kind.
IdsRegistered(snapshot, dir) ==
    LET under(prefix) ==
            {e.uuid : e \in {x \in Range(snapshot.server) :
                                x.path # <<>> /\ Head(x.path) = prefix}}
    IN CASE dir = "serverResourcesDir" -> under("resource_packs/")
         [] dir = "serverBehaviorsDir" -> under("behavior_packs/")
         [] dir = "worldResourcesDir" ->
                {e.pack_id : e \in Range(snapshot.worldResources)}
         [] dir = "worldBehaviorsDir" ->
                {e.pack_id : e \in Range(snapshot.worldBehaviors)}

\* The ids with an installed directory in a scope and kind.
IdsInstalled(snapshot, dir) ==
    {snapshot.dirs[dir][n][1].header.uuid :
        n \in {x \in DOMAIN snapshot.dirs[dir] : snapshot.dirs[dir][x] # <<>>}}

Consistent(snapshot) ==
    \A dir \in DirKeys : IdsRegistered(snapshot, dir) = IdsInstalled(snapshot, dir)

\* C18. Registry/directory consistency: when a call that began with the
\* registered ids equal to the installed ids, per scope and kind, has
\* returned, they are equal again.
C18_Consistent ==
    (/\ Idle
     /\ hist.calls # <<>>
     /\ LastCall.op \in {"installAddon", "installAllAddons"}
     /\ hist.last # "constructor"
     /\ hist.outcome = "resolved"
     /\ Consistent(hist.pre))
    => Consistent(Snapshot)

\* The errors of an install of one pack: the path does not exist or has no
\* pack extension, the archive holds no manifest, the manifest has neither
\* modules nor header.modules, the module type is neither resources nor
\* data.
FailedInstallErrors ==
    {"path does not exist", "not an addon or pack", "manifest does not exist",
     "unknown manifest format", "unknown pack type"}

\* The step in which installAddon, or the installPack it called, throws one
\* of these errors.
InstallFails ==
    /\ stack # <<>>
    /\ Head(stack).op \in {"installAddon", "installPack"}
    /\ hist'.last = "throw"
    /\ Last(hist'.log).arg \in FailedInstallErrors

\* C19. A failed install leaves the state unchanged: when an installAddon
\* call throws one of these errors, itself or from its installPack, the
\* registry sequences, the documents, the pack directories and the four maps
\* are what they were when the call began.
C19_FailedInstallUnchanged ==
    [][InstallFails
       => IF Head(stack).op = "installAddon"
          THEN Snapshot' = Snapshot
          ELSE /\ hist.ia # <<>>
               /\ hist.ia[1].packPath = Head(stack).arg.packPath
               /\ Snapshot' = hist.ia[1].pre]_vars

\* installAddon of a pack of an unknown module type has thrown from
\* installPack, on an installer whose maps hold a record of the id.
C19_Witness ==
    /\ Idle
    /\ hist.outcome = "rejected"
    /\ hist.last = "throw"
    /\ Last(hist.log).arg = "unknown pack type"
    /\ MapGet(installedServerBehaviors, hist.ia[1].uuid) # <<>>

\* The current call is installAddon of a bundle, which has been decomposed.
BundleInstall ==
    /\ hist.calls # <<>>
    /\ LastCall.op = "installAddon"
    /\ Last(LastCall.arg) = ".mcaddon"
    /\ LogOf("extractAddonPacks") # <<>>

\* The packs extractAddonPacks returned, in the order of the array.
Produced == LogOf("extractAddonPacks")[1].arg

\* The produced packs whose installAddon has begun, in the order it began.
Started ==
    LET begun == SelectSeq(hist.log, LAMBDA e : /\ e.ev = "installAddon"
                                                 /\ e.arg.src = "addon")
    IN [i \in 1..Len(begun) |-> begun[i].arg.packPath]

\* The produced packs whose installAddon is still to begin.
Waiting ==
    LET frames == SelectSeq(stack, LAMBDA f : f.op = "installAddon")
    IN [i \in 1..Len(frames) |-> frames[i].arg.packPath]

\* C20. Bundle install: once installAddon(bundle) has decomposed the bundle,
\* the bundle file is gone, and the decomposition comes before every
\* installAddon of a produced pack; the produced packs are begun one after
\* the other in the order returned, each when the one before has ended; the
\* call returns when all have been begun and ended; when one throws, the
\* call ends with that error at once and the packs after it are not begun.
C20_BundleInstall ==
    BundleInstall
    => /\ LastCall.arg \notin DOMAIN addonDir
       /\ hist.log[2].ev = "extractAddonPacks"
       /\ Len(LogOf("extractAddonPacks")) = 1
       /\ \E k \in 0..Len(Produced) : Started = SubSeq(Produced, 1, k)
       /\ hist.outcome = "pending"
             => /\ stack # <<>>
                /\ Started \o Waiting = Produced
                /\ \A i \in 1..(Len(stack) - Len(Waiting)) :
                       stack[i].op # "installAddon"
       /\ hist.outcome = "resolved"
             => /\ Idle
                /\ Started = Produced
                /\ LogOf("thrown") = <<>>
       /\ hist.outcome = "rejected"
             => /\ Idle
                /\ Last(hist.log).ev = "thrown"
                /\ Len(LogOf("thrown")) = 1

\* installAddon of a bundle of four has ended with the error of its second
\* pack, after the first was installed and before the others were begun.
C20_Witness ==
    /\ BundleInstall
    /\ hist.outcome = "rejected"
    /\ Len(Produced) = 4
    /\ Len(Started) = 2
    /\ LogOf("installed") # <<>>

\* installAddon of a bundle has returned after it installed both packs.
C20_Returned ==
    /\ BundleInstall
    /\ hist.outcome = "resolved"
    /\ Len(Started) = 2
    /\ Len(LogOf("installed")) = 2

\* The packs a decomposition of a bundle puts into BDS-Addons.
ProducedFiles == {P_pk_r, P_pk_d, P_qk_d, P_qk_o, P_qk_r, P_qk_s}

\* installAllAddons has been called while BDS-Addons held a pack that the
\* call before, an installAddon of a bundle that threw, had produced.
LeftoverAtBatch(f) ==
    /\ Len(hist.calls) >= 2
    /\ PrevCall.op = "installAddon" /\ Last(PrevCall.arg) = ".mcaddon"
    /\ LastCall.op = "installAllAddons"
    /\ hist.last = "call"
    /\ f \in DOMAIN addonDir

\* The last installAddon the batch has begun is the one of f.
BatchAt(f) ==
    /\ hist.calls # <<>>
    /\ LastCall.op = "installAllAddons"
    /\ BatchPaths(hist.log) # <<>>
    /\ Last(BatchPaths(hist.log)) = f

\* The pack of f is installed: both registries hold an entry of its id and
\* version, both directories hold its manifest.
InstalledNow(f) ==
    LET m == addonDir[f].manifest[1]
        type == ManifestType(m)
        name == SanitizeName(m.header.name)
    IN /\ \E e \in Range(serverPacksJSON) :
              /\ e.uuid = m.header.uuid
              /\ e.version = ServerVersionString(ManifestVersion(m))
       /\ WorldPackInfo(m.header.uuid, ManifestVersion(m))
              \in Range(WorldJSONOf(type))
       /\ \A dir \in {ServerDirOf(type), WorldDirOf(type)} :
              /\ name \in DOMAIN packDirs[dir]
              /\ packDirs[dir][name] = <<m>>

\* The installAddon of f in the batch has just ended: it threw, or installPack
\* returned and the pack is installed, or it found the pack up to date.
BatchEnded(f) ==
    /\ BatchAt(f)
    /\ \/ hist.last = "throw"
       \/ /\ hist.last = "installPack.return"
          /\ hist.ip # <<>>
          /\ hist.ip[1].ctx.packPath = f
          /\ InstalledNow(f)
       \/ /\ hist.last = "installAddon"
          /\ hist.ia # <<>>
          /\ hist.ia[1].packPath = f
          /\ RecordsOf(hist.ia[1]) # {}
          /\ \A r \in RecordsOf(hist.ia[1]) : r.version = hist.ia[1].version

UninstallEnded ==
    /\ hist.un # <<>>
    /\ \/ hist.last = "uninstall.return"
       \/ /\ hist.last = "throw"
          /\ Len(hist.log) >= 2
          /\ hist.log[Len(hist.log) - 1].ev = "uninstall:writeFile"

\* The sequence, the id key and the document of an uninstall function, in a
\* snapshot.
TargetOf(scope, snapshot) ==
    CASE scope = "uninstallServerPack" ->
             [array |-> snapshot.server, key |-> "uuid",
              path |-> "serverPacksJsonPath"]
      [] scope = "uninstallWorldResource" ->
             [array |-> snapshot.worldResources, key |-> "pack_id",
              path |-> "worldResourcesJsonPath"]
      [] scope = "uninstallWorldBehavior" ->
             [array |-> snapshot.worldBehaviors, key |-> "pack_id",
              path |-> "worldBehaviorsJsonPath"]

\* C22. Independence of the two uninstall steps: when an uninstall function
\* has ended, a location that existed is deleted, whether the id was found
\* and whether the document could be written; and an entry that was found
\* is removed from the sequence, and written to the document when the
\* document can be written, whether the location existed or not.
C22_IndependentSteps ==
    UninstallEnded
    => LET un == hist.un[1]
           before == TargetOf(un.scope, un.pre)
           after == TargetOf(un.scope, Snapshot)
       IN /\ un.existed
                => un.location.name \notin DOMAIN packDirs[un.location.dir]
          /\ un.packIndex # -1
                => /\ after.array = spliceRemove(before.array, un.packIndex)
                   /\ after.path \notin readOnly
                         => jsonFiles[after.path] = stringify(after.array)

\* C23. Uninstall postcondition: when an uninstall function has returned,
\* its sequence holds no entry of the id, the location does not exist, and
\* the entries of the other ids are the ones before it, in their order.
C23_UninstallPostcondition ==
    Uninstalled
    => LET un == hist.un[1]
           before == TargetOf(un.scope, un.pre)
           after == TargetOf(un.scope, Snapshot)
       IN /\ ~Registered(after.array, after.key, un.uuid)
          /\ un.location.name \notin DOMAIN packDirs[un.location.dir]
          /\ OtherEntries(after.array, after.key, un.uuid)
                 = OtherEntries(before.array, before.key, un.uuid)

\* The same for sequences that held the id at most once.
C23_WhenUnique ==
    (Uninstalled
     /\ Len(EntriesOf(TargetOf(hist.un[1].scope, hist.un[1].pre).array,
                      TargetOf(hist.un[1].scope, hist.un[1].pre).key,
                      hist.un[1].uuid)) <= 1)
    => C23_UninstallPostcondition

\* C24. The inventory maps are frozen between scans: a step that changes one
\* of the four maps is the constructor or the end of uninstallAllWorldPacks;
\* no step of installAddon, installPack or an uninstall function changes
\* them.
C24_MapsFrozen ==
    [][inventories' # inventories
       => hist'.last \in {"constructor", "uninstallAllWorldPacks.return"}]_vars

\* installAddon has uninstalled a pack and installed another version, and
\* the maps are the ones before the call: they still record the version
\* that was deleted.
C24_Witness ==
    /\ Idle
    /\ hist.calls # <<>>
    /\ LastCall.op = "installAddon"
    /\ hist.last = "installPack.return"
    /\ hist.un # <<>>
    /\ hist.un[1].existed
    /\ packDirs # hist.pre.dirs
    /\ hist.pre.installed = Snapshot.installed
    /\ \E dir \in DirKeys :
           Snapshot.installed[dir] # mapInstalledPacks(dir, packDirs[dir])

----------------------------------------------------------------------------
\* The subdirectories of a pack directory that held a pack when the call
\* began and are gone.
SweptAway(dir) ==
    {n \in DOMAIN hist.pre.dirs[dir] :
        hist.pre.dirs[dir][n] # <<>> /\ n \notin DOMAIN packDirs[dir]}

\* The first installAddon of installAllAddons(true), the sweep behind it.
FirstAfterSweep ==
    /\ hist.calls # <<>>
    /\ LastCall.op = "installAllAddons" /\ LastCall.arg = TRUE
    /\ Len(BatchPaths(hist.log)) = 1
    /\ hist.ia # <<>>
    /\ hist.ia[1].type \in {"resources", "data"}

\* The scopes of a pack type in which the sweep deleted a directory of an id:
\* the directory was there when the call began and was gone when installAddon
\* looked the id up.
DeletedFor(ia) ==
    {dir \in {WorldDirOf(ia.type), ServerDirOf(ia.type)} :
        \E n \in DirsOf(hist.pre.dirs[dir], ia.uuid) :
            n \notin DOMAIN ia.pre.dirs[dir]}

\* The maps are the scans of the directories when the sweep returns.
Rescanned ==
    \A dir \in DirKeys :
        Snapshot.installed[dir] = mapInstalledPacks(dir, packDirs[dir])

\* C25. Rebuild after sweep: when uninstallAllWorldPacks has returned, each of
\* the four inventory maps is the scan of its directory at that moment and no
\* map has a record of an id of which the sweep deleted a directory in that
\* scope; the first installAddon after the sweep, when it is of such an id,
\* finds no record of it (it is a fresh install, not a no-op).
C25_RebuildAfterSweep ==
    /\ SweepDone
       => /\ Rescanned
          /\ \A dir \in DirKeys : \A n \in SweptAway(dir) :
                 ~MapHas(Snapshot.installed[dir],
                         hist.pre.dirs[dir][n][1].header.uuid)
    /\ (FirstAfterSweep /\ DeletedFor(hist.ia[1]) # {})
       => RecordsOf(hist.ia[1]) = {}

\* The part of C25 that is the code of lines 284-287.
C25_Rescanned == SweepDone => Rescanned

----------------------------------------------------------------------------
\* A frame of the for loop of installAllAddons: an entry not yet begun, or the
\* end of the try of an entry.
BatchFrame(frame) ==
    \/ frame.op = "endTry"
    \/ frame.op = "installAddon" /\ frame.arg.src = "batch"

\* The entries of the listing the loop has not begun, in the order of the
\* loop.
RECURSIVE Remaining(_)
Remaining(frames) ==
    IF frames = <<>> THEN <<>>
    ELSE (IF Head(frames).op = "installAddon" /\ Head(frames).arg.src = "batch"
          THEN <<Head(frames).arg.packPath>> ELSE <<>>)
         \o Remaining(Tail(frames))

\* installAllAddons is about to call installAddon for an entry of the
\* listing.
AtBatchEntry ==
    /\ stack # <<>>
    /\ Head(stack).op = "installAddon"
    /\ Head(stack).arg.src = "batch"

\* C26. Sequential batch: within one installAllAddons the entries begun and
\* the entries not yet begun are, in this order, the listing of readdir; when
\* installAddon is called for an entry nothing of an earlier entry is pending
\* (only later entries of the loop wait), and with removeOldPacks the sweep
\* has returned, maps rebuilt, before the listing is read and the first entry
\* begins.
C26_SequentialBatch ==
    /\ (hist.calls # <<>> /\ LastCall.op = "installAllAddons"
        /\ LogOf("readdir") # <<>>)
       => /\ BatchPaths(hist.log) \o Remaining(stack) = LogOf("readdir")[1].arg
          /\ LastCall.arg = TRUE
             => /\ LogOf("reloadPacks") # <<>>
                /\ ~InSweep
                /\ \A i \in 1..Len(stack) : stack[i].op # "uninstallAllWorldPacks"
    /\ AtBatchEntry
       => /\ \A i \in 2..Len(stack) : BatchFrame(stack[i])
          /\ hist.last \in {"readdir", "endTry", "throw"}

\* The second entry of installAllAddons(true) is about to begin: the sweep
\* uninstalled a pack and the first entry installed one.
C26_Witness ==
    /\ AtBatchEntry
    /\ LastCall.arg = TRUE
    /\ Len(BatchPaths(hist.log)) = 1
    /\ hist.un # <<>>
    /\ LogOf("installed") # <<>>

----------------------------------------------------------------------------
UuidOf(packPath) == addonDir[packPath].manifest[1].header.uuid

\* The last two calls were installAddon(p) and installAddon(q), the second
\* made while the first was pending; both have ended without an exception,
\* and each has run installPack to its end (neither found its pack
\* installed).
BothInstalled(p, q) ==
    /\ TwoInstalls(p, q)
    /\ LogOf("unawaited") # <<>>
    /\ stack = <<>> /\ suspended = <<>>
    /\ LogOf("thrown") = <<>>
    /\ {e.arg : e \in Range(LogOf("installed"))} = {UuidOf(p), UuidOf(q)}

HasEntries(packPath) ==
    LET manifest == addonDir[packPath].manifest[1]
        uuid == manifest.header.uuid
        type == ManifestType(manifest)
    IN /\ Registered(serverPacksJSON, "uuid", uuid)
       /\ Registered(DocumentEntries("serverPacksJsonPath"), "uuid", uuid)
       /\ Registered(WorldJSONOf(type), "pack_id", uuid)
       /\ Registered(DocumentEntries(WorldJsonPathOf(type)), "pack_id", uuid)

\* C27. No lost update under overlapping installs: when installAddon(p) and
\* installAddon(q) of installable packs with distinct ids were started on one
\* installer without awaiting the first and both have ended without an
\* exception, each having installed its pack, both ids have an entry in the resident and in the persisted
\* server registry and in the resident and persisted world registry of their
\* type.
C27_NoLostUpdate ==
    \A p, q \in DOMAIN addonDir :
        (/\ Installable(p, addonDir[p]) /\ Installable(q, addonDir[q])
         /\ UuidOf(p) # UuidOf(q)
         /\ BothInstalled(p, q))
        => HasEntries(p) /\ HasEntries(q)

====
